---- MODULE Spec2Model ----
(***************************************************************************)
(* A model of the ACG wire router (ACG/AutoRouter.py, class EZRouter).     *)
(*                                                                         *)
(* Two specifications are defined:                                         *)
(*   SpecManh  the waypoint normalizer, manhattanize_point_list, run one   *)
(*             loop iteration at a time over inputs drawn from a bounded   *)
(*             grid, then run a second time on its own output;             *)
(*   Spec      the router object: its path state, its output list and the  *)
(*             layout generator's shape database, driven by the public     *)
(*             drawing operations.                                         *)
(*                                                                         *)
(* A waypoint is the pair <<position, layer>> of the source, a position    *)
(* the pair <<x, y>>.  Tuples of TLA+ are indexed from 1, so the source's  *)
(* pt[0][0], pt[0][1], pt[1] are pt[1][1], pt[1][2], pt[2] here.           *)
(***************************************************************************)
EXTENDS Integers, Sequences, FiniteSets, TLC

VARIABLES
    router,     \* the router's fields, with the database of its layout generator
    op,         \* the last call made on the router, with its arguments
    nops,       \* the number of calls made
    nz,         \* the normalizer's locals and its position in the function
    bfs,        \* the grid search's locals and its position in the function
    off,        \* the offset route being made, and the position in its making
    insts       \* the heap of configuration dictionaries, and the routers made

vars == <<router, op, nops, nz, bfs, off, insts>>

----------------------------------------------------------------------------
(* Bounds of the model                                                     *)

\* largest grid coordinate of a waypoint handed to the normalizer
MaxCoord == 2
\* longest list of target waypoints handed to the normalizer
MaxPoints == 2
\* most calls made on one router
MaxOps == 2

----------------------------------------------------------------------------
(* Values                                                                  *)

valid_directions == {"+x", "-x", "+y", "-y"}

Layers == {"M1", "M2"}

PX(p) == p[1][1]
PY(p) == p[1][2]
PL(p) == p[2]

Coords == 0..MaxCoord

Waypoints == {<<<<x, y>>, l>> : x \in Coords, y \in Coords, l \in Layers}

RECURSIVE SeqsUpTo(_, _)
SeqsUpTo(S, n) ==
    IF n = 0 THEN {<<>>}
    ELSE LET shorter == SeqsUpTo(S, n - 1)
         IN shorter \cup {Append(s, e) : s \in {t \in shorter : Len(t) = n - 1}, e \in S}

\* the worked examples of the normalizer, beside the bounded grid
ExampleInputs ==
    { [initial_direction |-> "+x", initial_point |-> <<<<0, 0>>, "M1">>,
       points |-> << <<<<3, 4>>, "M1">> >>],
      [initial_direction |-> "+x", initial_point |-> <<<<0, 0>>, "M1">>,
       points |-> << <<<<3, 0>>, "M1">>, <<<<3, 4>>, "M1">> >>],
      [initial_direction |-> "+x", initial_point |-> <<<<0, 0>>, "M1">>,
       points |-> << <<<<1, 0>>, "M1">>, <<<<2, 1>>, "M1">>, <<<<2, 2>>, "M1">> >>],
      [initial_direction |-> "+y", initial_point |-> <<<<0, 0>>, "M1">>,
       points |-> << <<<<1, 0>>, "M1">>, <<<<2, 0>>, "M1">>, <<<<1, 0>>, "M1">> >>] }

GridInputs ==
    { [initial_direction |-> d, initial_point |-> <<<<0, 0>>, l>>, points |-> ps] :
        d \in valid_directions, l \in Layers,
        ps \in (SeqsUpTo(Waypoints, MaxPoints) \ {<<>>}) }

----------------------------------------------------------------------------
(* manhattanize_point_list                                                 *)

\* the preferred axis the loop starts with
InitialAxis(initial_direction) ==
    IF initial_direction = "+x" \/ initial_direction = "-x" THEN "x" ELSE "y"

\* the locals of the loop: the list built so far, the current point, the axis
ManhStart(initial_direction, initial_point) ==
    [manh_point_list |-> <<initial_point>>,
     current_point   |-> initial_point,
     current_dir     |-> InitialAxis(initial_direction)]

\* mutant: the diagonal is not split, the target is appended alone
ManhDiagonal_NoSplit(st, next_point) ==
    [manh_point_list |-> Append(st.manh_point_list, next_point),
     current_point   |-> next_point,
     current_dir     |-> IF st.current_dir = "x" THEN "y" ELSE "x"]

\* mutant: the offsets are taken absolute, not relative to the current point
ManhDiagonal_AbsOffset(st, next_point) ==
    LET cp == st.current_point
        dx == PX(next_point)
        dy == PY(next_point)
    IN IF st.current_dir = "x"
       THEN [manh_point_list |-> st.manh_point_list
                                   \o << <<<<PX(cp) + dx, PY(cp)>>, PL(cp)>>, next_point >>,
             current_point   |-> next_point,
             current_dir     |-> "y"]
       ELSE [manh_point_list |-> st.manh_point_list
                                   \o << <<<<PX(cp), PY(cp) + dy>>, PL(cp)>>, next_point >>,
             current_point   |-> next_point,
             current_dir     |-> "x"]

\* mutant: the preferred axis is not flipped after the split
ManhDiagonal_NoFlip(st, next_point) ==
    LET cp == st.current_point
        dx == PX(next_point) - PX(cp)
        dy == PY(next_point) - PY(cp)
    IN IF st.current_dir = "x"
       THEN [manh_point_list |-> st.manh_point_list
                                   \o << <<<<PX(cp) + dx, PY(cp)>>, PL(cp)>>, next_point >>,
             current_point   |-> next_point,
             current_dir     |-> "x"]
       ELSE [manh_point_list |-> st.manh_point_list
                                   \o << <<<<PX(cp), PY(cp) + dy>>, PL(cp)>>, next_point >>,
             current_point   |-> next_point,
             current_dir     |-> "y"]

\* the upcoming point is offset in both dimensions: add an intermediate point
ManhDiagonal(st, next_point) ==
    LET cp == st.current_point
        dx == PX(next_point) - PX(cp)
        dy == PY(next_point) - PY(cp)
    IN IF st.current_dir = "x"
       THEN [manh_point_list |-> st.manh_point_list
                                   \o << <<<<PX(cp) + dx, PY(cp)>>, PL(cp)>>, next_point >>,
             current_point   |-> next_point,
             current_dir     |-> "y"]
       ELSE [manh_point_list |-> st.manh_point_list
                                   \o << <<<<PX(cp), PY(cp) + dy>>, PL(cp)>>, next_point >>,
             current_point   |-> next_point,
             current_dir     |-> "x"]

\* mutant: the preferred axis becomes the axis that stood still
ManhSingle_OtherAxis(st, next_point) ==
    LET dx == PX(next_point) - PX(st.current_point)
    IN [manh_point_list |-> Append(st.manh_point_list, next_point),
        current_point   |-> next_point,
        current_dir     |-> IF dx = 0 THEN "x" ELSE "y"]

\* the upcoming point is appended as it is
ManhSingle(st, next_point) ==
    LET dx == PX(next_point) - PX(st.current_point)
    IN [manh_point_list |-> Append(st.manh_point_list, next_point),
        current_point   |-> next_point,
        current_dir     |-> IF dx = 0 THEN "y" ELSE "x"]

\* which branch of the loop body the upcoming point takes
ManhBranch(st, next_point) ==
    LET dx == PX(next_point) - PX(st.current_point)
        dy == PY(next_point) - PY(st.current_point)
    IN IF dx # 0 /\ dy # 0 THEN "diagonal"
       ELSE IF dx = 0 /\ dy = 0 /\ PL(next_point) = PL(st.current_point) THEN "skip"
       ELSE "single"

\* one iteration of the loop over the points
ManhVisit(st, next_point) ==
    LET b == ManhBranch(st, next_point)
    IN IF b = "diagonal" THEN ManhDiagonal(st, next_point)
       ELSE IF b = "skip" THEN st
       ELSE ManhSingle(st, next_point)

\* the test of the sweep on three consecutive points
CoLinear(pt0, pt1, pt2) ==
    \/ /\ PX(pt0) = PX(pt1) /\ PX(pt1) = PX(pt2)
       /\ \/ (PY(pt0) <= PY(pt1) /\ PY(pt1) <= PY(pt2))
          \/ (PY(pt0) >= PY(pt1) /\ PY(pt1) >= PY(pt2))
       /\ PL(pt0) = PL(pt1) /\ PL(pt1) = PL(pt2)
    \/ /\ PY(pt0) = PY(pt1) /\ PY(pt1) = PY(pt2)
       /\ \/ (PX(pt0) <= PX(pt1) /\ PX(pt1) <= PX(pt2))
          \/ (PX(pt0) >= PX(pt1) /\ PX(pt1) >= PX(pt2))
       /\ PL(pt0) = PL(pt1) /\ PL(pt1) = PL(pt2)

\* mutant: the last window of three points is not looked at
DelIdx_OffByOne(list) ==
    {i + 1 : i \in {j \in 1..(Len(list) - 3) : CoLinear(list[j], list[j + 1], list[j + 2])}}

\* the indices the sweep deletes, all found on the list as the loop built it
DelIdx(list) ==
    {i + 1 : i \in {j \in 1..(Len(list) - 2) : CoLinear(list[j], list[j + 1], list[j + 2])}}

RECURSIVE KeepFrom(_, _, _)
KeepFrom(list, del_idx, i) ==
    IF i > Len(list) THEN <<>>
    ELSE IF i \in del_idx THEN KeepFrom(list, del_idx, i + 1)
    ELSE <<list[i]>> \o KeepFrom(list, del_idx, i + 1)

\* remove the co-linear points that are on the same layer
ManhSweep(list) == KeepFrom(list, DelIdx(list), 1)

RECURSIVE ManhLoop(_, _, _)
ManhLoop(st, points, i) ==
    IF i > Len(points) THEN st
    ELSE ManhLoop(ManhVisit(st, points[i]), points, i + 1)

\* the whole function, as the router calls it
manhattanize_point_list(initial_direction, initial_point, points) ==
    ManhSweep(ManhLoop(ManhStart(initial_direction, initial_point), points, 1).manh_point_list)

----------------------------------------------------------------------------
(* Rectangle: the geometry the router reads and writes                     *)
(*                                                                         *)
(* Lengths are in units of the grid resolution (0.001), on which XY keeps  *)
(* every coordinate; the inputs are chosen with even widths and even       *)
(* coordinates, so that the halves taken by update_dict are on the grid.   *)

Half(n) == n \div 2

Abs(n) == IF n < 0 THEN -n ELSE n

\* add_rect's default shape, xy = [[0, 0], [.1, .1]]
DefaultSize == 100

\* the length new_route_from_location gives a segment of no stated length:
\* twice the grid resolution
MinLength == 2

\* width=None, length=None
None == 0

MkRect(llx, lly, urx, ury, layer) ==
    [llx |-> llx, lly |-> lly, urx |-> urx, ury |-> ury, layer |-> layer]

\* update_dict: the location of a handle
Handle(r, h) ==
    CASE h = "ll" -> <<r.llx, r.lly>>
      [] h = "ur" -> <<r.urx, r.ury>>
      [] h = "ul" -> <<r.llx, r.ury>>
      [] h = "lr" -> <<r.urx, r.lly>>
      [] h = "cl" -> <<r.llx, Half(r.ury + r.lly)>>
      [] h = "cr" -> <<r.urx, Half(r.ury + r.lly)>>
      [] h = "ct" -> <<Half(r.llx + r.urx), r.ury>>
      [] h = "cb" -> <<Half(r.llx + r.urx), r.lly>>
      [] h = "c"  -> <<Half(r.llx + r.urx), Half(r.ury + r.lly)>>

get_dim(r, dim) ==
    IF dim = "x" THEN Abs(r.llx - r.urx) ELSE Abs(r.ury - r.lly)

\* sets the width or the height, keeping the center
set_dim(r, dim, size) ==
    IF dim = "x"
    THEN [r EXCEPT !.llx = Handle(r, "cb")[1] - Half(size),
                   !.urx = Handle(r, "ct")[1] + Half(size)]
    ELSE [r EXCEPT !.lly = Handle(r, "cl")[2] - Half(size),
                   !.ury = Handle(r, "cr")[2] + Half(size)]

\* moves the rectangle so that target_handle lies on pos, in the dimensions
\* align_opt allows
align(r, target_handle, pos, align_opt) ==
    LET diffx == Handle(r, target_handle)[1] - pos[1]
        diffy == Handle(r, target_handle)[2] - pos[2]
        r1 == IF align_opt[1]
              THEN [r EXCEPT !.llx = r.llx - diffx, !.urx = r.urx - diffx]
              ELSE r
    IN IF align_opt[2]
       THEN [r1 EXCEPT !.lly = r1.lly - diffy, !.ury = r1.ury - diffy]
       ELSE r1

\* the second half of stretch: the edge opposite to target_handle is put back
\* where it was before the alignment, in x
StretchWidth(a, target_handle, diff_width, stretch_opt) ==
    IF ~stretch_opt[1] THEN a
    ELSE IF target_handle \in {"ll", "ul", "cl"}
         THEN [a EXCEPT !.urx = a.urx + diff_width]
    ELSE IF target_handle \in {"lr", "ur", "cr"}
         THEN [a EXCEPT !.llx = a.llx + diff_width]
    ELSE [a EXCEPT !.llx = a.llx + Half(diff_width),
                   !.urx = a.urx + Half(diff_width)]

\* the same in y
StretchHeight(w, target_handle, diff_height, stretch_opt) ==
    IF ~stretch_opt[2] THEN w
    ELSE IF target_handle \in {"ll", "lr", "cb"}
         THEN [w EXCEPT !.ury = w.ury + diff_height]
    ELSE IF target_handle \in {"ul", "ur", "ct"}
         THEN [w EXCEPT !.lly = w.lly + diff_height]
    ELSE [w EXCEPT !.lly = w.lly + Half(diff_height),
                   !.ury = w.ury + Half(diff_height)]

\* stretch without a reference rectangle: target_handle is moved to offset,
\* the opposite edge stays
stretch(r, target_handle, offset, stretch_opt) ==
    StretchHeight(StretchWidth(align(r, target_handle, offset, stretch_opt),
                               target_handle,
                               Handle(r, target_handle)[1] - offset[1],
                               stretch_opt),
                  target_handle,
                  Handle(r, target_handle)[2] - offset[2],
                  stretch_opt)

----------------------------------------------------------------------------
(* Technology: the metal stack and the router's configuration              *)
(*                                                                         *)
(* The technology is read from the file named by ACG_TECH (ACG/tech.py).   *)
(* The model takes a stack of three metals, each connected to the one      *)
(* above it, with a primitive via configured between neighbours only, and  *)
(* a pad layer AP above them that no metal connects to.                    *)

Metals == {"M1", "M2", "M3", "AP"}

\* the index of a layer in the metal stack
LayerIndex(l) == CASE l = "M1" -> 1 [] l = "M2" -> 2 [] l = "M3" -> 3 [] l = "AP" -> 4

\* metals[l]['connect_to'], "" where the stack ends
ConnectTo(l) == CASE l = "M1" -> "M2" [] l = "M2" -> "M3" [] l = "M3" -> "" [] l = "AP" -> ""

\* the configured primitive vias, <<lower layer, upper layer>> for 'V<lower>_<upper>'
Vias == {<<"M1", "M2">>, <<"M2", "M3">>}

\* config[layer]['width']
ConfigWidth(l) == IF l \in {"M3", "AP"} THEN 80 ELSE 40

\* the highest of the current rectangle's layer and the given one
get_highest_layer(r, layer) ==
    IF LayerIndex(layer) > LayerIndex(r.layer) THEN layer ELSE r.layer

----------------------------------------------------------------------------
(* The router and its layout generator, as one record                      *)
(*                                                                         *)
(* rects is the generator's _db['rect']: every rectangle made by add_rect  *)
(* or copy_rect, in order; a rectangle is known by its index there, and 0  *)
(* is None.  An operation is an operator from the state before the call to *)
(* the state after it; err names the exception that ended it, the state    *)
(* being what the call had written until then.  Two fields are history,    *)
(* kept for the operation in progress: turns has one entry for each        *)
(* draw_via that got as far as its via, saying whether the layers differed *)
(* and how many vias it added to the database; trail has the position of   *)
(* the route after each segment and each turn.                             *)

\* the route_point_dict of no entries
EmptyDict == [k \in {} |-> None]

\* the router after __init__ without a start rectangle
Constructed ==
    [rects            |-> <<>>,
     prim_via         |-> <<>>,
     via              |-> <<>>,
     current_rect     |-> 0,
     current_dir      |-> "None",
     current_handle   |-> "None",
     layer            |-> "None",
     loc              |-> [route_list |-> <<0>>, rect_list |-> <<0>>, via_list |-> <<>>],
     route_points     |-> <<>>,
     route_point_dict |-> EmptyDict,
     turns            |-> <<>>,
     trail            |-> <<>>,
     err              |-> "none"]

\* mutant: an exception drops the waypoints added so far
Raise_Clearing(S, e) == [S EXCEPT !.err = e, !.route_points = <<>>]

\* raise: the call ends with exception e, the state as it is
Raise(S, e) == [S EXCEPT !.err = e]

\* the current rectangle
Cur(S) == S.rects[S.current_rect]

\* the route's position: current_rect[current_handle]
Position(S) == Handle(Cur(S), S.current_handle)

Uninitialized(S) ==
    S.current_rect = 0 \/ S.current_handle = "None" \/ S.current_dir = "None"

IsX(d) == d = "+x" \/ d = "-x"

\* _set_handle_from_dir
HandleFromDir(direction) ==
    CASE direction = "+x" -> "cr"
      [] direction = "-x" -> "cl"
      [] direction = "+y" -> "ct"
      [] direction = "-y" -> "cb"

\* route_point_dict[key] = value
DictPut(d, key, value) ==
    [k \in (DOMAIN d) \cup {key} |-> IF k = key THEN value ELSE d[k]]

\* gen.add_rect(layer): the default shape is added to the database
add_rect(S, layer) ==
    [S EXCEPT !.rects = Append(S.rects, MkRect(0, 0, DefaultSize, DefaultSize, layer))]

\* gen.copy_rect(rect, layer)
copy_rect(S, rect, layer) ==
    [S EXCEPT !.rects = Append(S.rects, [rect EXCEPT !.layer = layer])]

\* the shape just made takes its final geometry: the in-place edits of the
\* rectangle add_rect returned
Shape(S, r) == [S EXCEPT !.rects[Len(S.rects)] = r]

\* the route's position after a segment or a turn, for the history
Moved(S) == [S EXCEPT !.trail = Append(S.trail, Position(S))]

\* new_route from its second statement on, the current rectangle being set
NewRouteState(S1, start_rect, start_direction) ==
    IF start_direction \notin valid_directions THEN Raise(S1, "ValueError")
    ELSE [S1 EXCEPT
            !.current_dir = start_direction,
            !.layer = start_rect.layer,
            !.current_handle = HandleFromDir(start_direction),
            !.route_point_dict =
                DictPut(S1.route_point_dict,
                        Handle(Cur(S1), HandleFromDir(start_direction)),
                        IF IsX(start_direction)
                        THEN start_rect.ury - start_rect.lly
                        ELSE start_rect.urx - start_rect.llx),
            !.loc = [route_list |-> <<S1.current_rect>>,
                     rect_list  |-> <<S1.current_rect>>,
                     via_list   |-> <<>>]]

new_route(S0, start_rect, start_direction) ==
    NewRouteState([copy_rect(S0, start_rect, start_rect.layer)
                     EXCEPT !.current_rect = Len(S0.rects) + 1],
                  start_rect, start_direction)

\* the first rectangle of a route started from a location
StartShape(r0, start_loc, start_direction, width, length) ==
    align(IF IsX(start_direction)
          THEN set_dim(set_dim(r0, "y", width), "x",
                       IF length = None THEN MinLength ELSE length)
          ELSE set_dim(set_dim(r0, "x", width), "y",
                       IF length = None THEN MinLength ELSE length),
          HandleFromDir(start_direction), start_loc, <<TRUE, TRUE>>)

\* new_route_from_location from its third statement on
NewRouteRect(S1, start_loc, start_direction, start_layer, width, length) ==
    [S1 EXCEPT !.current_rect = Len(S1.rects),
               !.layer = start_layer,
               !.rects[Len(S1.rects)] =
                   StartShape(S1.rects[Len(S1.rects)], start_loc, start_direction,
                              width, length),
               !.route_point_dict = DictPut(S1.route_point_dict, start_loc, width)]

new_route_from_location(S0, start_loc, start_direction, start_layer, width, length) ==
    IF start_direction \notin valid_directions THEN Raise(S0, "ValueError")
    ELSE NewRouteRect(add_rect([S0 EXCEPT !.current_dir = start_direction,
                                          !.current_handle = HandleFromDir(start_direction)],
                               start_layer),
                      start_loc, start_direction, start_layer, width, length)

\* mutant: the new segment is stretched in both dimensions
StretchOpt_Both(current_dir) == <<TRUE, TRUE>>

\* stretch_opt: a segment is stretched along the current direction only
StretchOpt(current_dir) ==
    IF IsX(current_dir) THEN <<TRUE, FALSE>> ELSE <<FALSE, TRUE>>

\* the handle of a new segment that is laid on the route's position
BackHandle(current_dir) ==
    CASE current_dir = "+x" -> "cl"
      [] current_dir = "-x" -> "cr"
      [] current_dir = "+y" -> "cb"
      [] current_dir = "-y" -> "ct"

\* the rectangle of a straight segment from the route's position to loc
SegmentShape(r0, S0, loc, width) ==
    stretch(align(IF IsX(S0.current_dir)
                  THEN set_dim(r0, "y", IF width # None THEN width
                                        ELSE get_dim(Cur(S0), "y"))
                  ELSE set_dim(r0, "x", IF width # None THEN width
                                        ELSE get_dim(Cur(S0), "x")),
                  BackHandle(S0.current_dir), Position(S0), <<TRUE, TRUE>>),
            S0.current_handle, loc, StretchOpt(S0.current_dir))

\* draw_straight_route from add_rect on; S1 has the new rectangle
DrawSegment(S1, S0, loc, width) ==
    [S1 EXCEPT !.loc.rect_list = Append(S1.loc.rect_list, Len(S1.rects)),
               !.current_rect = Len(S1.rects),
               !.rects[Len(S1.rects)] = SegmentShape(S1.rects[Len(S1.rects)], S0, loc, width)]

draw_straight_route(S0, loc, width) ==
    IF Uninitialized(S0) THEN Raise(S0, "ValueError")
    ELSE Moved(DrawSegment(add_rect(S0, Cur(S0).layer), S0, loc, width))

\* direction[1]: the axis letter of a direction string
AxisChar(direction) ==
    IF direction \in {"+x", "-x"} THEN "x"
    ELSE IF direction \in {"+y", "-y"} THEN "y"
    ELSE "o"

\* ViaStack.find_metal_pairs: the metal pairs from the bottom layer up to the
\* top layer, <<>> when the stack ends before the top layer is reached
\* mutant: a via stack is made between neighbouring layers only
MetalPairs_DirectOnly(bot_layer, top) ==
    IF ConnectTo(bot_layer) = top THEN << <<bot_layer, top>> >> ELSE <<>>

RECURSIVE MetalPairs(_, _)
MetalPairs(bot_layer, top) ==
    IF ConnectTo(bot_layer) = "" THEN <<>>
    ELSE IF ConnectTo(bot_layer) = top THEN << <<bot_layer, top>> >>
    ELSE IF MetalPairs(ConnectTo(bot_layer), top) = <<>> THEN <<>>
    ELSE << <<bot_layer, ConnectTo(bot_layer)>> >> \o MetalPairs(ConnectTo(bot_layer), top)

\* ViaStack.find_metal_pairs: which rectangle is the bottom and which the
\* top of the stack, and the metal pairs from the one to the other
ViaStackLoc(rect1, rect2) ==
    IF LayerIndex(rect2.layer) > LayerIndex(rect1.layer)
    THEN [bottom |-> rect1, top |-> rect2, metal_pairs |-> MetalPairs(rect1.layer, rect2.layer)]
    ELSE [bottom |-> rect2, top |-> rect1, metal_pairs |-> MetalPairs(rect2.layer, rect1.layer)]

\* ViaStack(rect1, rect2), appended to the database when it could be made
AddViaStack(S, id1, id2, bottom, top) ==
    IF MetalPairs(bottom, top) = <<>> THEN Raise(S, "ValueError")
    ELSE [S EXCEPT !.via = Append(S.via, [rect1 |-> id1, rect2 |-> id2,
                                          metal_pairs |-> MetalPairs(bottom, top)])]

\* mutant: a via stack is made between any two rectangles
connect_wires_Always(S, id1, id2) ==
    [S EXCEPT !.via = Append(S.via, [rect1 |-> id1, rect2 |-> id2, metal_pairs |-> <<>>])]

\* gen.connect_wires(rect1, rect2): a ViaStack between rectangles of
\* different layers, nothing between rectangles of one layer
connect_wires(S, id1, id2) ==
    IF S.rects[id1].layer # S.rects[id2].layer
    THEN IF LayerIndex(S.rects[id2].layer) > LayerIndex(S.rects[id1].layer)
         THEN AddViaStack(S, id1, id2, S.rects[id1].layer, S.rects[id2].layer)
         ELSE AddViaStack(S, id1, id2, S.rects[id2].layer, S.rects[id1].layer)
    ELSE S

\* gen.add_prim_via(via_id, rect): Via looks up the via's rules before the
\* via is added to the database
add_prim_via(S, via_id, id) ==
    IF via_id \notin Vias THEN Raise(S, "KeyError")
    ELSE [S EXCEPT !.prim_via = Append(S.prim_via, [via_id |-> via_id, bbox |-> id])]

\* the number of vias in the database
NumVias(S) == Len(S.prim_via) + Len(S.via)

\* draw_via's sizing of the new rectangle r1, which lies centred on the
\* route's position: the width of the route coming in, the width of the
\* route going out, and a square when the route goes straight on
TurnSized(r1, cur, current_dir) ==
    IF IsX(current_dir)
    THEN set_dim(r1, "y", get_dim(cur, "y"))
    ELSE set_dim(r1, "x", get_dim(cur, "x"))

TurnOut(r2, direction, out_width) ==
    IF direction = "+x" \/ direction = "-x"
    THEN set_dim(r2, "y", out_width)
    ELSE set_dim(r2, "x", out_width)

TurnSquare(r3, cur, current_dir, direction) ==
    IF AxisChar(current_dir) = "x" /\ AxisChar(direction) = "x"
    THEN set_dim(r3, "x", get_dim(cur, "y"))
    ELSE IF AxisChar(current_dir) = "y" /\ AxisChar(direction) = "y"
    THEN set_dim(r3, "y", get_dim(cur, "x"))
    ELSE r3

TurnShape(r0, S0, layer, direction, out_width) ==
    TurnSquare(TurnOut(TurnSized(align(r0, "c", Position(S0), <<TRUE, TRUE>>),
                                 Cur(S0), S0.current_dir),
                       direction,
                       IF out_width = None THEN ConfigWidth(layer) ELSE out_width),
               Cur(S0), S0.current_dir, direction)

\* mutant: the via is named in the order of the call, current layer first
ViaId_CallOrder(cur, layer) == <<cur.layer, layer>>

\* the name of the primitive via between the current layer and layer
ViaId(cur, layer) ==
    IF get_highest_layer(cur, layer) = cur.layer
    THEN <<layer, cur.layer>>
    ELSE <<cur.layer, layer>>

\* draw_via's via: S2 has the new rectangle, sized, as its last one
TurnVia(S2, cur, layer, prim) ==
    IF prim
    THEN IF layer # cur.layer
         THEN add_prim_via(S2, ViaId(cur, layer), Len(S2.rects))
         ELSE S2
    ELSE connect_wires(copy_rect(S2, S2.rects[Len(S2.rects)], cur.layer),
                       Len(S2.rects), Len(S2.rects) + 1)

\* mutant: the direction is set and the handle is left as it was
TurnTo_KeepHandle(S5, direction) ==
    IF direction \notin valid_directions THEN Raise(S5, "ValueError")
    ELSE Moved([S5 EXCEPT !.current_dir = direction])

\* draw_via's last two statements: the direction and its handle
TurnTo(S5, direction) ==
    IF direction \notin valid_directions THEN Raise(S5, "ValueError")
    ELSE Moved([S5 EXCEPT !.current_dir = direction,
                          !.current_handle = HandleFromDir(direction)])

\* draw_via after its via: the pointers to the new rectangle, whose index is id
TurnDone(S4, S0, id, layer, direction) ==
    IF S4.err # "none" THEN S4
    ELSE TurnTo([S4 EXCEPT
                   !.loc.rect_list = Append(S4.loc.rect_list, id),
                   !.current_rect = id,
                   !.turns = Append(S4.turns,
                                    [differ |-> layer # Cur(S0).layer,
                                     vias   |-> NumVias(S4) - NumVias(S0)])],
                direction)

\* draw_via from add_rect on; S1 has the new rectangle
Turn(S1, S0, layer, direction, out_width, prim) ==
    TurnDone(TurnVia(Shape(S1, TurnShape(S1.rects[Len(S1.rects)], S0, layer,
                                         direction, out_width)),
                     Cur(S0), layer, prim),
             S0, Len(S1.rects), layer, direction)

draw_via(S0, layer, direction, out_width, prim) ==
    IF Uninitialized(S0) THEN Raise(S0, "ValueError")
    ELSE Turn(add_rect(S0, layer), S0, layer, direction, out_width, prim)

\* the width of the current segment
RouteWidth(S) ==
    IF IsX(S.current_dir) THEN get_dim(Cur(S), "y") ELSE get_dim(Cur(S), "x")

\* draw_l_route's last statement
LRouteEnd(S2, loc, out_width) ==
    IF S2.err # "none" THEN S2 ELSE draw_straight_route(S2, loc, out_width)

\* draw_l_route after its first segment
LRouteTurn(S1, loc, out_width, layer) ==
    LRouteEnd(draw_via(S1,
                       IF layer = "" THEN Cur(S1).layer ELSE layer,
                       IF IsX(S1.current_dir)
                       THEN IF Position(S1)[2] < loc[2] THEN "+y" ELSE "-y"
                       ELSE IF Position(S1)[1] < loc[1] THEN "+x" ELSE "-x",
                       IF out_width # None THEN out_width ELSE RouteWidth(S1),
                       FALSE),
              loc,
              IF out_width # None THEN out_width ELSE RouteWidth(S1))

\* layer is "" for None
draw_l_route(S0, loc, in_width, out_width, layer) ==
    IF Uninitialized(S0) THEN Raise(S0, "ValueError")
    ELSE LRouteTurn(draw_straight_route(S0, loc, in_width), loc, out_width, layer)

RECURSIVE add_route_points(_, _, _, _, _)
add_route_points(S, points, layer, width, add_width) ==
    IF points = <<>> THEN S
    ELSE add_route_points(
             [S EXCEPT !.route_points = Append(S.route_points, <<Head(points), layer>>),
                       !.route_point_dict =
                           IF add_width THEN DictPut(S.route_point_dict, Head(points), width)
                           ELSE S.route_point_dict],
             Tail(points), layer, width, add_width)

\* the direction in which the route leaves its position for pt1
TurnDirection(S, pt1) ==
    IF IsX(S.current_dir)
    THEN IF Position(S)[2] < PY(pt1) THEN "+y"
         ELSE IF Position(S)[2] = PY(pt1) /\ Position(S)[1] < PX(pt1) THEN "+x"
         ELSE IF Position(S)[2] = PY(pt1) THEN "-x"
         ELSE "-y"
    ELSE IF Position(S)[1] < PX(pt1) THEN "+x"
         ELSE IF Position(S)[1] = PX(pt1) /\ Position(S)[2] < PY(pt1) THEN "+y"
         ELSE IF Position(S)[1] = PX(pt1) THEN "-y"
         ELSE "-x"

\* _draw_route_segment after its straight segment
SegmentTurn(S1, pt0, pt1, out_width, prim) ==
    draw_via(S1, PL(pt0),
             IF pt1 # <<>> THEN TurnDirection(S1, pt1) ELSE S1.current_dir,
             IF out_width # None THEN out_width ELSE RouteWidth(S1),
             prim)

\* pt1 is <<>> for None, at the end of the route
draw_route_segment(S0, pt0, pt1, in_width, out_width, prim) ==
    IF Uninitialized(S0) THEN Raise(S0, "ValueError")
    ELSE SegmentTurn(draw_straight_route(S0, pt0[1], in_width), pt0, pt1, out_width, prim)

\* cardinal_router's first loop: every given point gets its layer's width
RECURSIVE SetConfigWidths(_, _)
SetConfigWidths(d, points) ==
    IF points = <<>> THEN d
    ELSE SetConfigWidths(DictPut(d, Head(points)[1], ConfigWidth(PL(Head(points)))),
                         Tail(points))

\* cardinal_router's second loop, from index i: a waypoint of no width gets
\* the width of the waypoint before it
RECURSIVE FillWidths(_, _, _)
FillWidths(S, manh, i) ==
    IF i > Len(manh) THEN S
    ELSE IF manh[i][1] \in DOMAIN S.route_point_dict \/ i = 1
         THEN FillWidths(S, manh, i + 1)
    ELSE IF manh[i - 1][1] \notin DOMAIN S.route_point_dict
         THEN Raise(S, "KeyError")
    ELSE FillWidths([S EXCEPT !.route_point_dict =
                         DictPut(S.route_point_dict, manh[i][1],
                                 S.route_point_dict[manh[i - 1][1]])],
                    manh, i + 1)

\* cardinal_router's third loop, from index i: a segment and a turn for
\* each pair of consecutive waypoints
RECURSIVE DrawSegments(_, _, _, _)
DrawSegments(S, pts, i, prim) ==
    IF i >= Len(pts) \/ S.err # "none" THEN S
    ELSE DrawSegments(draw_route_segment(S, pts[i], pts[i + 1],
                                         S.route_point_dict[pts[i][1]],
                                         S.route_point_dict[pts[i + 1][1]],
                                         prim),
                      pts, i + 1, prim)

\* the points of a route given relative to the route's position
Absolute(points, x0, y0) ==
    [k \in 1..Len(points) |->
        << <<PX(points[k]) + x0, PY(points[k]) + y0>>, PL(points[k]) >>]

\* the points cardinal_router routes through: those given, else those added
RoutePoints(S, points, relative_coords) ==
    IF relative_coords
    THEN Absolute(IF points = <<>> THEN S.route_points ELSE points,
                  Position(S)[1], Position(S)[2])
    ELSE IF points = <<>> THEN S.route_points ELSE points

\* the waypoint list cardinal_router follows from state S
ManhPointList(S, points, relative_coords) ==
    manhattanize_point_list(S.current_dir, <<Position(S), Cur(S).layer>>,
                            RoutePoints(S, points, relative_coords))

\* cardinal_router's end
RouteClear(S4, clear_route) ==
    IF S4.err # "none" \/ ~clear_route THEN S4
    ELSE [S4 EXCEPT !.route_points = <<>>, !.route_point_dict = EmptyDict]

\* cardinal_router's final segment, to the last waypoint
RouteEnd(S3, final_point_list, prim, clear_route) ==
    IF S3.err # "none" THEN S3
    ELSE IF final_point_list = <<>> THEN Raise(S3, "IndexError")
    ELSE RouteClear(
             draw_route_segment(
                 S3, final_point_list[Len(final_point_list)], <<>>,
                 S3.route_point_dict[final_point_list[Len(final_point_list)][1]],
                 S3.route_point_dict[final_point_list[Len(final_point_list)][1]],
                 prim),
             clear_route)

\* cardinal_router from its loop of L-routes on
RouteSegments(S2, final_point_list, prim, clear_route) ==
    IF S2.err # "none" THEN S2
    ELSE RouteEnd(DrawSegments(S2, final_point_list, 1, prim),
                  final_point_list, prim, clear_route)

\* cardinal_router once the waypoint list is made
RouteAlong(S1, manh_point_list, prim, clear_route) ==
    RouteSegments(FillWidths(S1, manh_point_list, 1), Tail(manh_point_list),
                  prim, clear_route)

\* points is <<>> for None
cardinal_router(S0, points, relative_coords, prim, clear_route) ==
    IF Uninitialized(S0) THEN Raise(S0, "ValueError")
    ELSE RouteAlong(IF points = <<>> THEN S0
                    ELSE [S0 EXCEPT !.route_point_dict =
                              SetConfigWidths(S0.route_point_dict, points)],
                    ManhPointList(S0, points, relative_coords),
                    prim, clear_route)

----------------------------------------------------------------------------
(* bfs_router: the grid search of EZRouterExtension                        *)
(*                                                                         *)
(* A grid square is <<i, j, layer>>; the grids are one function from the   *)
(* squares of every routing layer to their values.  The call is followed   *)
(* through its two loops: one step for each square label_node takes from   *)
(* its queue, one for each square the walk back from the end adds to the   *)
(* path.  Coordinates are exact, so round() is the rounding of a fraction. *)
(* The caller's config (spacing and direction of each layer) travels with  *)
(* the arguments.  Start and end are taken inside the routing area, where  *)
(* every index the code computes is an index of the grid.  The field found *)
(* is history: label_node returned at the end square.                      *)

\* tech_info['metal_tech']['routing']
Routing == <<"M1", "M2", "M3", "AP">>

\* the values of a grid square that are not labels: None, 'S', 'E', 'O'
CellNone == -1
CellS == -2
CellE == -3
CellO == -4

\* round(n / d) for d > 0: a half goes to the even neighbour
Round(n, d) ==
    IF 2 * (n % d) < d THEN n \div d
    ELSE IF 2 * (n % d) > d THEN (n \div d) + 1
    ELSE IF (n \div d) % 2 = 0 THEN n \div d
    ELSE (n \div d) + 1

\* "Snap all input coordinates to grid"
BfsSnap(a) ==
    [a EXCEPT !.start = <<Round(a.start[1], a.config[a.start_layer].spacing)
                              * a.config[a.start_layer].spacing,
                          Round(a.start[2], a.config[a.start_layer].spacing)
                              * a.config[a.start_layer].spacing>>,
              !.end   = <<Round(a.end[1], a.config[a.end_layer].spacing)
                              * a.config[a.end_layer].spacing,
                          Round(a.end[2], a.config[a.end_layer].spacing)
                              * a.config[a.end_layer].spacing>>]

\* dims[layer], without and with a routing area; a is snapped, area is
\* <<>> for no area and <<routing_ll, routing_ur>> otherwise
GridDim(a, sp) ==
    IF a.area = <<>>
    THEN <<Round(Abs(a.end[1] - a.start[1]), sp) + 1,
           Round(Abs(a.end[2] - a.start[2]), sp) + 1>>
    ELSE <<Round(Round(a.area[2][1], sp) * sp - Round(a.area[1][1], sp) * sp, sp) + 2,
           Round(Round(a.area[2][2], sp) * sp - Round(a.area[1][2], sp) * sp, sp) + 2>>

\* start_coord, end_coord, ll_pos and ur_pos
BfsFrame(a, dims) ==
    IF a.area # <<>>
    THEN [start_coord |-> <<Round(a.start[1] - a.area[1][1], a.config[a.start_layer].spacing),
                            Round(a.start[2] - a.area[1][2], a.config[a.start_layer].spacing)>>,
          end_coord   |-> <<Round(a.end[1] - a.area[1][1], a.config[a.end_layer].spacing),
                            Round(a.end[2] - a.area[1][2], a.config[a.end_layer].spacing)>>,
          ll_pos |-> a.area[1], ur_pos |-> a.area[2]]
    ELSE IF a.end[1] > a.start[1]
    THEN IF a.end[2] > a.start[2]
         THEN [start_coord |-> <<0, 0>>,
               end_coord   |-> <<dims[a.end_layer][1] - 1, dims[a.end_layer][2] - 1>>,
               ll_pos |-> a.start, ur_pos |-> a.end]
         ELSE [start_coord |-> <<0, dims[a.start_layer][2] - 1>>,
               end_coord   |-> <<dims[a.end_layer][1] - 1, 0>>,
               ll_pos |-> <<a.start[1], a.end[2]>>, ur_pos |-> <<a.end[1], a.start[2]>>]
    ELSE IF a.end[2] > a.start[2]
         THEN [start_coord |-> <<dims[a.start_layer][1] - 1, 0>>,
               end_coord   |-> <<0, dims[a.end_layer][2] - 1>>,
               ll_pos |-> <<a.end[1], a.start[2]>>, ur_pos |-> <<a.start[1], a.end[2]>>]
         ELSE [start_coord |-> <<dims[a.start_layer][1] - 1, dims[a.start_layer][2] - 1>>,
               end_coord   |-> <<0, 0>>,
               ll_pos |-> a.end, ur_pos |-> a.start]

\* overlap(A, B), B being the rectangle from ll_pos to ur_pos
Overlap(A, ll_pos, ur_pos) ==
    /\ (IF A.llx > ll_pos[1] THEN A.llx ELSE ll_pos[1])
           < (IF A.urx < ur_pos[1] THEN A.urx ELSE ur_pos[1])
    /\ (IF A.lly > ll_pos[2] THEN A.lly ELSE ll_pos[2])
           < (IF A.ury < ur_pos[2] THEN A.ury ELSE ur_pos[2])

\* the square c is one of those the obstruction rect fills with 'O'
Obstructs(rect, c, a, f) ==
    /\ Overlap(rect, f.ll_pos, f.ur_pos)
    /\ rect.layer \in a.layers
    /\ rect.layer = c[3]
    /\ c[1] >= Round(rect.llx - f.ll_pos[1], a.config[rect.layer].spacing)
    /\ c[1] <= Round(rect.urx - f.ll_pos[1], a.config[rect.layer].spacing)
    /\ c[2] >= Round(rect.lly - f.ll_pos[2], a.config[rect.layer].spacing)
    /\ c[2] <= Round(rect.ury - f.ll_pos[2], a.config[rect.layer].spacing)

\* the grids as label_node finds them: 'S', then 'E', then the 'O's written
MarkedGrids(a, dims, f, obstructions) ==
    [c \in UNION {{<<i, j, l>> : i \in 0..(dims[l][1] - 1), j \in 0..(dims[l][2] - 1)} :
                      l \in a.layers} |->
        IF \E k \in 1..Len(obstructions) : Obstructs(obstructions[k], c, a, f)
        THEN CellO
        ELSE IF c = <<f.end_coord[1], f.end_coord[2], a.end_layer>> THEN CellE
        ELSE IF c = <<f.start_coord[1], f.start_coord[2], a.start_layer>> THEN CellS
        ELSE CellNone]

\* the locals of bfs_router when it calls label_node
BfsFramed(a, dims, f, obstructions) ==
    [pc         |-> "label",
     a          |-> a,
     dims       |-> dims,
     ll_pos     |-> f.ll_pos,
     grids      |-> MarkedGrids(a, dims, f, obstructions),
     h          |-> << <<<<f.start_coord[1], f.start_coord[2], a.start_layer>>, 0>> >>,
     start_node |-> <<f.start_coord[1], f.start_coord[2], a.start_layer>>,
     end_node   |-> <<f.end_coord[1], f.end_coord[2], a.end_layer>>,
     curr_node  |-> <<f.end_coord[1], f.end_coord[2], a.end_layer>>,
     path       |-> << <<f.end_coord[1], f.end_coord[2], a.end_layer>> >>,
     visited    |-> {},
     real_path  |-> <<>>,
     found      |-> FALSE,
     err        |-> "none"]

BfsDimmed(a, dims, obstructions) == BfsFramed(a, dims, BfsFrame(a, dims), obstructions)

\* bfs_router up to its call of label_node; rects is the router's
\* loc['rect_list'], None left out
BfsStart(a0, rects) ==
    BfsDimmed(BfsSnap(a0),
              [l \in a0.layers |-> GridDim(BfsSnap(a0), a0.config[l].spacing)],
              a0.obstructions \o rects)

\* find_adjacent
find_adjacent(a, layer1, layer2, i, j) ==
    <<Round(i * a.config[layer1].spacing, a.config[layer2].spacing),
      Round(j * a.config[layer1].spacing, a.config[layer2].spacing)>>

\* the neighbour on the routing layer of index idx, if that is a routing
\* layer of the call and the square is below the dimensions of its grid
AdjacentOn(G, layer, i, j, idx) ==
    IF /\ idx \in 1..Len(Routing)
       /\ Routing[idx] \in G.a.layers
       /\ find_adjacent(G.a, layer, Routing[idx], i, j)[1] < G.dims[Routing[idx]][1]
       /\ find_adjacent(G.a, layer, Routing[idx], i, j)[2] < G.dims[Routing[idx]][2]
    THEN << <<find_adjacent(G.a, layer, Routing[idx], i, j)[1],
              find_adjacent(G.a, layer, Routing[idx], i, j)[2], Routing[idx]>> >>
    ELSE <<>>

\* get_neighbors: the neighbours of a square, in the order of the code
get_neighbors(G, layer, i, j) ==
    (IF G.a.config[layer].direction \in {"x", "xy"} /\ i + 1 < G.dims[layer][1]
     THEN << <<i + 1, j, layer>> >> ELSE <<>>)
    \o (IF G.a.config[layer].direction \in {"x", "xy"} /\ i - 1 >= 0
        THEN << <<i - 1, j, layer>> >> ELSE <<>>)
    \o (IF G.a.config[layer].direction \in {"y", "xy"} /\ j + 1 < G.dims[layer][2]
        THEN << <<i, j + 1, layer>> >> ELSE <<>>)
    \o (IF G.a.config[layer].direction \in {"y", "xy"} /\ j - 1 >= 0
        THEN << <<i, j - 1, layer>> >> ELSE <<>>)
    \o AdjacentOn(G, layer, i, j,
                  (CHOOSE k \in 1..Len(Routing) : Routing[k] = layer) + 1)
    \o AdjacentOn(G, layer, i, j,
                  (CHOOSE k \in 1..Len(Routing) : Routing[k] = layer) - 1)

\* the squares of a list that label_node adds to its queue, with idx
RECURSIVE Unlabeled(_, _, _)
Unlabeled(grids, neighbors, idx) ==
    IF neighbors = <<>> THEN <<>>
    ELSE (IF grids[Head(neighbors)] \in {CellNone, 0, CellE}
          THEN << <<Head(neighbors), idx>> >> ELSE <<>>)
         \o Unlabeled(grids, Tail(neighbors), idx)

\* the square taken from the queue is labelled, unless it is 'S', and its
\* neighbours are added to the queue
LabelSquare(G, item, grids) ==
    [G EXCEPT !.grids = grids,
              !.h = Tail(G.h) \o Unlabeled(grids,
                                           get_neighbors(G, item[1][3], item[1][1], item[1][2]),
                                           item[2] + 1)]

\* one iteration of the loop of label_node
label_node(G, item) ==
    IF G.grids[item[1]] = CellE
    THEN [G EXCEPT !.h = Tail(G.h), !.pc = "back", !.found = TRUE]
    ELSE IF G.grids[item[1]] = CellO \/ G.grids[item[1]] >= 1
    THEN [G EXCEPT !.h = Tail(G.h)]
    ELSE IF G.grids[item[1]] \in {CellNone, 0}
    THEN LabelSquare(G, item, [G.grids EXCEPT ![item[1]] = item[2]])
    ELSE LabelSquare(G, item, G.grids)

\* the labelled squares of a list that the walk back has not visited
RECURSIVE Labelled(_, _)
Labelled(G, neighbors) ==
    IF neighbors = <<>> THEN <<>>
    ELSE (IF G.grids[Head(neighbors)] >= 0 /\ Head(neighbors) \notin G.visited
          THEN <<Head(neighbors)>> ELSE <<>>)
         \o Labelled(G, Tail(neighbors))

\* min(neighbors, key=label): the first of the squares of least label
MinLabel(G, neighbors) ==
    neighbors[CHOOSE k \in 1..Len(neighbors) :
                 \A m \in 1..Len(neighbors) :
                     /\ G.grids[neighbors[k]] <= G.grids[neighbors[m]]
                     /\ (m < k => G.grids[neighbors[m]] > G.grids[neighbors[k]])]

\* mutant: the square the walk moves to is not marked visited
BackTo_NoVisit(G, curr_node) ==
    [G EXCEPT !.curr_node = curr_node,
              !.path = Append(G.path, curr_node)]

\* the walk moves to curr_node
BackTo(G, curr_node) ==
    [G EXCEPT !.curr_node = curr_node,
              !.visited = G.visited \cup {curr_node},
              !.path = Append(G.path, curr_node)]

\* one iteration of the loop that walks back from the end; min() of an
\* empty list raises ValueError
BackStep(G, neighbors) ==
    IF neighbors = <<>> THEN [G EXCEPT !.pc = "done", !.err = "ValueError"]
    ELSE BackTo(G, MinLabel(G, neighbors))

\* "Convert grid coordinates to real coordinates"
RealPath(G) ==
    [k \in 1..Len(G.path) |->
        <<<<Round(G.ll_pos[1], G.a.config[G.path[Len(G.path) + 1 - k][3]].spacing)
                * G.a.config[G.path[Len(G.path) + 1 - k][3]].spacing
             + G.a.config[G.path[Len(G.path) + 1 - k][3]].spacing
                * G.path[Len(G.path) + 1 - k][1],
            Round(G.ll_pos[2], G.a.config[G.path[Len(G.path) + 1 - k][3]].spacing)
                * G.a.config[G.path[Len(G.path) + 1 - k][3]].spacing
             + G.a.config[G.path[Len(G.path) + 1 - k][3]].spacing
                * G.path[Len(G.path) + 1 - k][2]>>,
          G.path[Len(G.path) + 1 - k][3]>>]

\* "Determine start direction"
BfsStartDir(start, next_pt) ==
    IF next_pt[1] > start[1] THEN "+x"
    ELSE IF next_pt[1] < start[1] THEN "-x"
    ELSE IF next_pt[2] > start[2] THEN "+y"
    ELSE "-y"

\* the loop after manhattanize_point_list: a point beyond both of its
\* neighbours on one line and one layer is moved onto the one after it
RECURSIVE PullBack(_, _)
PullBack(real_path, i) ==
    IF i + 2 > Len(real_path) THEN real_path
    ELSE PullBack(
        [real_path EXCEPT ![i + 1] =
            IF /\ PX(real_path[i]) = PX(@) /\ PX(@) = PX(real_path[i + 2])
               /\ \/ PY(real_path[i]) < PY(@) /\ PY(@) > PY(real_path[i + 2])
                  \/ PY(real_path[i]) > PY(@) /\ PY(@) < PY(real_path[i + 2])
               /\ PL(real_path[i]) = PL(@) /\ PL(@) = PL(real_path[i + 2])
            THEN <<<<PX(@), PY(real_path[i + 2])>>, PL(@)>>
            ELSE IF /\ PY(real_path[i]) = PY(@) /\ PY(@) = PY(real_path[i + 2])
                    /\ \/ PX(real_path[i]) < PX(@) /\ PX(@) > PX(real_path[i + 2])
                       \/ PX(real_path[i]) > PX(@) /\ PX(@) < PX(real_path[i + 2])
                    /\ PL(real_path[i]) = PL(@) /\ PL(@) = PL(real_path[i + 2])
            THEN <<<<PX(real_path[i + 2]), PY(@)>>, PL(@)>>
            ELSE @],
        i + 1)

\* the path handed to the router
BfsPath(G, real_path) ==
    PullBack(manhattanize_point_list(BfsStartDir(G.a.start, real_path[1][1]),
                                     <<G.a.start, G.a.start_layer>>, real_path), 1)

\* "for point in real_path": the points are added with the width of their layer
RECURSIVE AddPathPoints(_, _)
AddPathPoints(S, real_path) ==
    IF real_path = <<>> THEN S
    ELSE AddPathPoints(
             add_route_points(S, <<Head(real_path)[1]>>, Head(real_path)[2],
                              ConfigWidth(Head(real_path)[2]),
                              Head(real_path)[1] \notin DOMAIN S.route_point_dict),
             Tail(real_path))

\* "Route points": the route is started at start and drawn
BfsDraw(S, G, start_dir) ==
    cardinal_router(
        new_route_from_location(S, G.a.start, start_dir, G.a.start_layer,
                                ConfigWidth(G.a.start_layer), None),
        <<>>, FALSE, TRUE, TRUE)

\* no search is being made
BfsIdle == [pc |-> "idle"]

\* the rectangles of loc['rect_list'], None left out
RECURSIVE RectList(_, _)
RectList(S, ids) ==
    IF ids = <<>> THEN <<>>
    ELSE (IF Head(ids) = 0 THEN <<>> ELSE <<S.rects[Head(ids)]>>) \o RectList(S, Tail(ids))

----------------------------------------------------------------------------
(* cardinal_helper: a route at an offset from a given one                  *)
(*                                                                         *)
(* dirs and start are <<>> for None.  An index beyond manh is IndexError,  *)
(* a position missing from the width table of router_temp KeyError.        *)

\* mutant: at a turn the entry is the side of the direction left alone
shield_dict_Unit ==
    [d0 \in valid_directions |-> [d1 \in valid_directions |->
        CASE d0 = "+x" -> <<0, 1>>
          [] d0 = "-x" -> <<0, -1>>
          [] d0 = "+y" -> <<-1, 0>>
          [] d0 = "-y" -> <<1, 0>>]]

\* shield_dict
shield_dict ==
    [d0 \in valid_directions |-> [d1 \in valid_directions |->
        CASE d0 = "+x" -> (CASE d1 = "+x" -> <<0, 1>>   [] d1 = "-x" -> <<0, 1>>
                             [] d1 = "+y" -> <<-1, 1>>  [] d1 = "-y" -> <<1, 1>>)
          [] d0 = "-x" -> (CASE d1 = "+x" -> <<0, -1>>  [] d1 = "-x" -> <<0, -1>>
                             [] d1 = "+y" -> <<-1, -1>> [] d1 = "-y" -> <<1, -1>>)
          [] d0 = "+y" -> (CASE d1 = "+x" -> <<-1, 1>>  [] d1 = "-x" -> <<-1, -1>>
                             [] d1 = "+y" -> <<-1, 0>>  [] d1 = "-y" -> <<-1, 0>>)
          [] d0 = "-y" -> (CASE d1 = "+x" -> <<1, 1>>   [] d1 = "-x" -> <<1, -1>>
                             [] d1 = "+y" -> <<1, 0>>   [] d1 = "-y" -> <<1, 0>>)]]

\* "Calculate sequence of routing directions"
RouteDirs(manh) ==
    [i \in 1..(Len(manh) - 1) |->
        IF PX(manh[i]) > PX(manh[i + 1]) THEN "-x"
        ELSE IF PX(manh[i]) < PX(manh[i + 1]) THEN "+x"
        ELSE IF PY(manh[i]) > PY(manh[i + 1]) THEN "-y"
        ELSE "+y"]

\* the offset direction of a route that goes from position p to position q
\* ("Determine initial offset direction", "Determine final offset direction")
OffsetSide(p, q) ==
    IF p[1] > q[1] THEN <<0, -1>>
    ELSE IF p[1] < q[1] THEN <<0, 1>>
    ELSE IF p[2] > q[2] THEN <<1, 0>>
    ELSE <<-1, 0>>

\* position p moved by offset along direc
Shifted(p, offset, direc) == <<p[1] + offset * direc[1], p[2] + offset * direc[2]>>

\* EZRouter(self.gen): a router on the same layout generator
NewRouter(S) ==
    [Constructed EXCEPT !.rects = S.rects, !.prim_via = S.prim_via, !.via = S.via]

\* "for i in range(len(dirs))", from i = 1: the turns of manh, moved, are
\* added to the new router R with the widths of router_temp
RECURSIVE HelperLoop(_, _, _, _, _, _)
HelperLoop(R, dict, manh, dirs, offset, i) ==
    IF i >= Len(dirs) THEN R
    ELSE IF i + 1 > Len(manh) THEN Raise(R, "IndexError")
    ELSE IF manh[i + 1][1] \notin DOMAIN dict THEN Raise(R, "KeyError")
    ELSE HelperLoop(add_route_points(R,
                                     <<Shifted(manh[i + 1][1], offset,
                                               shield_dict[dirs[i]][dirs[i + 1]])>>,
                                     PL(manh[i + 1]), dict[manh[i + 1][1]], TRUE),
                    dict, manh, dirs, offset, i + 1)

\* "add final point to router"
HelperEnd(R, dict, manh, offset) ==
    IF R.err # "none" THEN R
    ELSE IF manh[Len(manh)][1] \notin DOMAIN dict THEN Raise(R, "KeyError")
    ELSE add_route_points(R,
                          <<Shifted(manh[Len(manh)][1], offset,
                                    OffsetSide(manh[Len(manh) - 1][1], manh[Len(manh)][1]))>>,
                          PL(manh[Len(manh)]), dict[manh[Len(manh)][1]], TRUE)

\* what cardinal_helper returns: router, manh, shield_start
HelperResult(R, start_dir, start_layer, shield_start) ==
    [router       |-> R,
     manh         |-> IF R.err # "none" THEN <<>>
                      ELSE manhattanize_point_list(start_dir, <<shield_start, start_layer>>,
                                                   R.route_points),
     shield_start |-> <<shield_start, start_layer>>]

\* the helper from "for i in range(len(dirs))" on
HelperFrom(S, dict, manh, shield_start, start_dir, start_layer, offset, dirs) ==
    HelperResult(
        HelperEnd(HelperLoop(new_route_from_location(NewRouter(S), shield_start,
                                                     start_dir, start_layer, 500, None),
                             dict, manh, dirs, offset, 1),
                  dict, manh, offset),
        start_dir, start_layer, shield_start)

\* cardinal_helper(router_temp, manh, ...): S is the router self, dict the
\* route_point_dict of router_temp; a manh of one point has no manh[1]
cardinal_helper(S, dict, manh, start_pt, start_dir, start_layer, offset, dirs, start) ==
    IF Len(manh) < 2
    THEN HelperResult(Raise(S, "IndexError"), start_dir, start_layer, start_pt)
    ELSE HelperFrom(S, dict, manh,
                    Shifted(start_pt, offset,
                            IF start = <<>> THEN OffsetSide(start_pt, manh[2][1]) ELSE start),
                    start_dir, start_layer, offset,
                    IF dirs = <<>> THEN RouteDirs(manh) ELSE dirs)

\* no offset route is being made
OffIdle == [pc |-> "idle"]

----------------------------------------------------------------------------
(* bus_router: routes side by side                                         *)
(*                                                                         *)
(* The routers of a bus share the layout generator: the database goes from *)
(* one to the next.  A side of the bus, top or bottom, is the course, the  *)
(* width table and the start of the route placed last on that side.  The   *)
(* list routes is history: the course of each route drawn, in order.       *)
(* The spacing is even, so that its half is on the grid.                   *)

\* "Include new route points created by manhattanize_point_list"
RECURSIVE BusWidths(_, _, _)
BusWidths(dict, manh, i) ==
    IF i > Len(manh) THEN dict
    ELSE BusWidths(IF manh[i][1] \notin DOMAIN dict /\ i # 1
                   THEN DictPut(dict, manh[i][1], dict[manh[i - 1][1]])
                   ELSE dict,
                   manh, i + 1)

\* the bus when the loop over its routes begins: S is the router self,
\* after the route in the center if there is one
BusBegin(S, manh, start_pt, routes) ==
    [S      |-> S,
     top    |-> [manh |-> manh, dict |-> S.route_point_dict, start |-> start_pt],
     bottom |-> [manh |-> manh, dict |-> S.route_point_dict, start |-> start_pt],
     sign   |-> 1,
     routes |-> routes,
     err    |-> S.err]

\* the route the helper made is drawn by R, and is the last on its side
BusDrawn(b, h, R) ==
    [S      |-> [b.S EXCEPT !.rects = R.rects, !.prim_via = R.prim_via, !.via = R.via],
     top    |-> IF b.sign = 1
                THEN [manh |-> h.manh, dict |-> R.route_point_dict, start |-> h.shield_start[1]]
                ELSE b.top,
     bottom |-> IF b.sign = 1 THEN b.bottom
                ELSE [manh |-> h.manh, dict |-> R.route_point_dict, start |-> h.shield_start[1]],
     sign   |-> -b.sign,
     routes |-> Append(b.routes, h.manh),
     err    |-> R.err]

\* the helper has returned h, or raised
BusHelped(b, h, prim) ==
    IF h.router.err # "none"
    THEN [b EXCEPT !.err = h.router.err,
                   !.S = [b.S EXCEPT !.rects = h.router.rects]]
    ELSE BusDrawn(b, h, cardinal_router(h.router, <<>>, FALSE, prim, FALSE))

\* "for j in range(num_iters)"
RECURSIVE BusLoop(_, _, _, _, _, _)
BusLoop(b, in, dirs, start, j, num_iters) ==
    IF j >= num_iters \/ b.err # "none" THEN b
    ELSE BusLoop(
             BusHelped(b,
                       cardinal_helper(b.S,
                                       (IF b.sign = 1 THEN b.top ELSE b.bottom).dict,
                                       (IF b.sign = 1 THEN b.top ELSE b.bottom).manh,
                                       (IF b.sign = 1 THEN b.top ELSE b.bottom).start,
                                       in.start_dir, in.start_layer,
                                       b.sign * (IF in.bus_size % 2 = 0 /\ j \in {0, 1}
                                                 THEN in.parallel_spacing \div 2
                                                 ELSE in.parallel_spacing),
                                       dirs, start),
                       in.prim),
             in, dirs, start, j + 1, num_iters)

\* bus_router from "top = (manh, self, start_pt)" on: S has the widths;
\* without a second point manh[1] is IndexError
BusRoutes(S, in, manh) ==
    IF in.bus_size % 2 = 1
    THEN IF Len(manh) < 2
         THEN BusBegin(Raise(cardinal_router(
                                 new_route_from_location(S, in.start_pt, in.start_dir,
                                                         in.start_layer, 500, None),
                                 <<>>, FALSE, in.prim, FALSE), "IndexError"),
                       manh, in.start_pt, <<manh>>)
         ELSE BusLoop(BusBegin(cardinal_router(
                                   new_route_from_location(S, in.start_pt, in.start_dir,
                                                           in.start_layer, 500, None),
                                   <<>>, FALSE, in.prim, FALSE),
                               manh, in.start_pt, <<manh>>),
                      in, RouteDirs(manh), OffsetSide(in.start_pt, manh[2][1]),
                      0, in.bus_size - 1)
    ELSE IF Len(manh) < 2 THEN BusBegin(Raise(S, "IndexError"), manh, in.start_pt, <<>>)
    ELSE BusLoop(BusBegin(S, manh, in.start_pt, <<>>),
                 in, RouteDirs(manh), OffsetSide(in.start_pt, manh[2][1]),
                 0, in.bus_size)

\* bus_router(start_layer, parallel_spacing, bus_size, start_width,
\* start_pt, start_dir, prim): the bus after its loop
bus_router(S, in) ==
    BusRoutes([S EXCEPT !.route_point_dict =
                   BusWidths(DictPut(S.route_point_dict, in.start_pt, in.start_width),
                             manhattanize_point_list(in.start_dir,
                                                     <<in.start_pt, in.start_layer>>,
                                                     S.route_points),
                             1)],
              in,
              manhattanize_point_list(in.start_dir, <<in.start_pt, in.start_layer>>,
                                      S.route_points))

\* "Clear instance variables for future routes", unless an exception ended
\* the call before
BusEnd(b) ==
    IF b.err # "none" THEN b.S
    ELSE [b.S EXCEPT !.route_points = <<>>, !.route_point_dict = EmptyDict]


----------------------------------------------------------------------------
(* Router instances and their configuration                                *)
(*                                                                         *)
(* __init__ binds self.config to the dictionary tech_info['metal_tech']    *)
(* ['router'] of the module ACG.tech, and updates it in place with the     *)
(* config it is given.  A dictionary is an object of the heap, known by    *)
(* its name; a router holds the name.  The dictionary has the width of     *)
(* each layer.                                                             *)

\* the heap when ACG.tech has been imported
TechLoaded == [tech_info |-> [l \in Metals |-> ConfigWidth(l)]]

\* dict.update
DictUpdate(d, config) ==
    [k \in (DOMAIN d) \cup (DOMAIN config) |-> IF k \in DOMAIN config THEN config[k] ELSE d[k]]

\* EZRouter(gen, config=config): the heap and the routers after __init__;
\* config is <<>> for None
EZRouterInit(I, config) ==
    [heap    |-> IF config = <<>> THEN I.heap
                 ELSE [I.heap EXCEPT !.tech_info = DictUpdate(I.heap.tech_info, config)],
     routers |-> Append(I.routers, [config |-> "tech_info", state |-> Constructed])]

\* no router has been made
NoInsts == [heap |-> TechLoaded, routers |-> <<>>]

----------------------------------------------------------------------------
(* The router driven by its caller                                         *)
(*                                                                         *)
(* Each action is one call of a public method, with arguments drawn from   *)
(* the sets below; a call that raises leaves the router as the exception   *)
(* left it, for the caller to go on with.                                  *)

\* a direction the setter of current_dir rejects, beside the valid ones
Directions == valid_directions \cup {"north"}

\* the rectangles a route is started from: 40 wide, with the handle of the
\* +x start, and of the +y start, at the origin
StartRects == {MkRect(-40, -20, 0, 20, "M1"), MkRect(-20, -40, 20, 0, "M2")}

\* positions the caller routes to
RouterLocs == {<<0, 0>>, <<400, 0>>, <<0, 400>>, <<400, 400>>}

\* lists of positions handed to add_route_points
PointLists == {<< <<400, 0>> >>, << <<0, 400>> >>, << <<400, 400>> >>,
               << <<400, 0>>, <<400, 400>> >>}

\* lists of waypoints handed to cardinal_router
WaypointLists ==
    {<< <<<<400, 0>>, "M1">> >>,
     << <<<<0, 400>>, "M1">> >>,
     << <<<<400, 400>>, "M2">> >>,
     << <<<<400, 0>>, "M1">>, <<<<400, 400>>, "M2">> >>,
     << <<<<0, 400>>, "M2">>, <<<<400, 400>>, "M3">> >>}

\* the call an action makes
Call(name, args) == [name |-> name, args |-> args]

NoCall == Call("__init__", <<>>)

\* the router as a call finds it: the history is of the call in progress
Begin == [router EXCEPT !.err = "none", !.turns = <<>>, !.trail = <<>>]

\* nothing is being normalized
NzIdle == [pc |-> "idle"]

\* EZRouter(gen), or EZRouter(gen, start_rect, start_direction)
Init ==
    /\ router \in {Constructed}
                  \cup {new_route(Constructed, r, d) : r \in StartRects, d \in valid_directions}
    /\ op = NoCall
    /\ nops = 0
    /\ nz = NzIdle
    /\ bfs = BfsIdle
    /\ off = OffIdle
    /\ insts = NoInsts

\* a call is made: it is counted and remembered
Called(name, args) ==
    /\ nops < MaxOps
    /\ nops' = nops + 1
    /\ op' = Call(name, args)
    /\ UNCHANGED <<nz, bfs, off, insts>>

NewRoute ==
    \E start_rect \in StartRects, start_direction \in Directions :
        /\ Called("new_route",
                  [start_rect |-> start_rect, start_direction |-> start_direction])
        /\ router' = new_route(Begin, start_rect, start_direction)

NewRouteFromLocation ==
    \E start_direction \in Directions, length \in {None, 200} :
        /\ Called("new_route_from_location",
                  [start_loc |-> <<0, 0>>, start_direction |-> start_direction,
                   start_layer |-> "M1", width |-> 40, length |-> length])
        /\ router' = new_route_from_location(Begin, <<0, 0>>, start_direction,
                                             "M1", 40, length)

DrawStraightRoute ==
    \E loc \in RouterLocs, width \in {None, 80} :
        /\ Called("draw_straight_route", [loc |-> loc, width |-> width])
        /\ router' = draw_straight_route(Begin, loc, width)

DrawVia ==
    \E layer \in Metals, direction \in Directions, prim \in BOOLEAN :
        /\ Called("draw_via", [layer |-> layer, direction |-> direction, prim |-> prim])
        /\ router' = draw_via(Begin, layer, direction, None, prim)

DrawLRoute ==
    \E loc \in RouterLocs, layer \in {"", "M2"} :
        /\ Called("draw_l_route", [loc |-> loc, layer |-> layer])
        /\ router' = draw_l_route(Begin, loc, None, None, layer)

AddRoutePoints ==
    \E points \in PointLists, layer \in Layers, width \in {None, 80} :
        /\ Called("add_route_points",
                  [points |-> points, layer |-> layer, width |-> width])
        /\ router' = add_route_points(Begin, points, layer, width, TRUE)

CardinalRouter ==
    \E points \in {<<>>} \cup WaypointLists, relative_coords \in BOOLEAN,
       prim \in BOOLEAN, clear_route \in BOOLEAN :
        /\ Called("cardinal_router",
                  [points |-> points, relative_coords |-> relative_coords,
                   prim |-> prim, clear_route |-> clear_route,
                   manh |-> IF Uninitialized(router) THEN <<>>
                            ELSE ManhPointList(router, points, relative_coords)])
        /\ router' = cardinal_router(Begin, points, relative_coords, prim, clear_route)

Next ==
    \/ NewRoute
    \/ NewRouteFromLocation
    \/ DrawStraightRoute
    \/ DrawVia
    \/ DrawLRoute
    \/ AddRoutePoints
    \/ CardinalRouter

Spec == Init /\ [][Next]_vars

----------------------------------------------------------------------------
(* The normalizer run step by step                                         *)

NzBegin(in, pass, first) ==
    [initial_direction |-> in.initial_direction,
     initial_point     |-> in.initial_point,
     points            |-> in.points,
     st                |-> ManhStart(in.initial_direction, in.initial_point),
     i                 |-> 1,
     pc                |-> "loop",
     last              |-> "none",
     pass              |-> pass,
     first             |-> first,
     result            |-> <<>>]

InitManh ==
    /\ nz \in {NzBegin(in, 1, <<>>) : in \in GridInputs \cup ExampleInputs}
    /\ router = Constructed
    /\ op = NoCall
    /\ nops = 0
    /\ bfs = BfsIdle
    /\ off = OffIdle
    /\ insts = NoInsts

\* one iteration of "for next_point in points"
NzIterate ==
    /\ nz.pc = "loop"
    /\ nz.i <= Len(nz.points)
    /\ nz' = [nz EXCEPT !.st = ManhVisit(nz.st, nz.points[nz.i]),
                        !.last = ManhBranch(nz.st, nz.points[nz.i]),
                        !.i = nz.i + 1]
    /\ UNCHANGED <<router, op, nops, bfs, off, insts>>

\* the loop is over: sweep the list and return
NzSweep ==
    /\ nz.pc = "loop"
    /\ nz.i > Len(nz.points)
    /\ nz' = [nz EXCEPT !.pc = "done",
                        !.result = ManhSweep(nz.st.manh_point_list)]
    /\ UNCHANGED <<router, op, nops, bfs, off, insts>>

\* the returned list is normalized again, with the same initial direction
NzAgain ==
    /\ nz.pc = "done"
    /\ nz.pass = 1
    /\ nz' = NzBegin([initial_direction |-> nz.initial_direction,
                      initial_point     |-> nz.result[1],
                      points            |-> Tail(nz.result)],
                     2, nz.result)
    /\ UNCHANGED <<router, op, nops, bfs, off, insts>>

NextManh == NzIterate \/ NzSweep \/ NzAgain

SpecManh == InitManh /\ [][NextManh]_vars

----------------------------------------------------------------------------
(* bfs_router run step by step                                             *)

\* largest coordinate of a start or end point, in grid squares
MaxCell == 2

\* config: the spacing and the direction of the routing layers
BfsConfigs ==
    { [l \in {"M1", "M2"} |-> [spacing |-> 200, direction |-> "xy"]],
      [l \in {"M1", "M2"} |-> [spacing |-> 200,
                               direction |-> IF l = "M1" THEN "x" ELSE "y"]],
      [l \in {"M1", "M2"} |-> [spacing |-> IF l = "M1" THEN 200 ELSE 400,
                               direction |-> "xy"]] }

\* start and end points
BfsPoints == {<<200 * i, 200 * j>> : i \in 0..MaxCell, j \in 0..MaxCell}

\* lists of obstructions: none, a wall with a gap, a wall on one layer and
\* on both, a rectangle over a corner square and over the middle square
ObstructionLists ==
    { <<>>,
      <<MkRect(150, -50, 250, 250, "M1")>>,
      <<MkRect(150, -50, 250, 200 * MaxCell + 50, "M1")>>,
      <<MkRect(150, -50, 250, 200 * MaxCell + 50, "M1"),
        MkRect(150, -50, 250, 200 * MaxCell + 50, "M2")>>,
      <<MkRect(-50, -50, 50, 50, "M1")>>,
      <<MkRect(150, 150, 250, 250, "M1")>> }

\* the calls of bfs_router that are made
BfsInputs ==
    { [start |-> start, end |-> end, start_layer |-> "M1", end_layer |-> end_layer,
       obstructions |-> obstructions, layers |-> layers, area |-> area,
       config |-> config] :
        start \in BfsPoints, end \in BfsPoints,
        end_layer \in {"M1", "M2"}, layers \in {{"M1", "M2"}},
        obstructions \in ObstructionLists,
        area \in {<<>>, << <<0, 0>>, <<200 * MaxCell, 200 * MaxCell>> >>},
        config \in BfsConfigs }
    \cup
    { [start |-> start, end |-> end, start_layer |-> "M1", end_layer |-> "M1",
       obstructions |-> obstructions, layers |-> {"M1"}, area |-> area,
       config |-> config] :
        start \in BfsPoints, end \in BfsPoints,
        obstructions \in ObstructionLists,
        area \in {<<>>, << <<0, 0>>, <<200 * MaxCell, 200 * MaxCell>> >>},
        config \in BfsConfigs }

InitBfs ==
    /\ bfs \in {[pc |-> "call", a |-> a] : a \in BfsInputs}
    /\ router = Constructed
    /\ op = NoCall
    /\ nops = 0
    /\ nz = NzIdle
    /\ off = OffIdle
    /\ insts = NoInsts

\* bfs_router is called: the grids are made and marked
BfsRouter ==
    /\ bfs.pc = "call"
    /\ bfs' = BfsStart(bfs.a, RectList(router, router.loc.rect_list))
    /\ router' = [Begin EXCEPT !.route_points = <<>>, !.route_point_dict = EmptyDict]
    /\ op' = Call("bfs_router", bfs.a)
    /\ UNCHANGED <<nops, nz, off, insts>>

\* label_node takes a square from its queue
BfsLabel ==
    /\ bfs.pc = "label"
    /\ bfs.h # <<>>
    /\ bfs' = label_node(bfs, Head(bfs.h))
    /\ UNCHANGED <<router, op, nops, nz, off, insts>>

\* the queue is empty: label_node returns
BfsLabelled ==
    /\ bfs.pc = "label"
    /\ bfs.h = <<>>
    /\ bfs' = [bfs EXCEPT !.pc = "back"]
    /\ UNCHANGED <<router, op, nops, nz, off, insts>>

\* the walk back from the end takes a step
BfsBack ==
    /\ bfs.pc = "back"
    /\ bfs.grids[bfs.curr_node] # 1
    /\ bfs' = BackStep(bfs, Labelled(bfs, get_neighbors(bfs, bfs.curr_node[3],
                                                         bfs.curr_node[1],
                                                         bfs.curr_node[2])))
    /\ UNCHANGED <<router, op, nops, nz, off, insts>>

\* the walk is at a square of label 1: the path is made and routed
BfsRoute ==
    /\ bfs.pc = "back"
    /\ bfs.grids[bfs.curr_node] = 1
    /\ \E raw \in {RealPath(bfs)} :
         \E real_path \in {BfsPath(bfs, raw)} :
            /\ router' = BfsDraw(AddPathPoints(router, real_path), bfs,
                                 BfsStartDir(bfs.a.start, raw[1][1]))
            /\ bfs' = [bfs EXCEPT !.pc = "done", !.real_path = real_path,
                                  !.err = router'.err]
    /\ UNCHANGED <<op, nops, nz, off, insts>>

NextBfs == BfsRouter \/ BfsLabel \/ BfsLabelled \/ BfsBack \/ BfsRoute

SpecBfs == InitBfs /\ [][NextBfs]_vars

\* the calls that start at a corner or at the middle of the area
BfsRunInputs == {a \in BfsInputs : a.start \in {<<0, 0>>, <<200, 200>>}}

InitBfsRun == InitBfs /\ bfs.a \in BfsRunInputs

\* bfs_router runs on: nothing suspends the loop of label_node or the loop
\* that walks back, so a pending iteration of either is made
SpecBfsRun ==
    InitBfsRun /\ [][NextBfs]_vars /\ WF_vars(BfsLabel \/ BfsLabelled \/ BfsBack)

----------------------------------------------------------------------------
(* cardinal_helper applied to normalized courses                           *)

\* largest offset of a route from the given one
MaxOffset == 2

\* a course with every coordinate multiplied by k
Scaled(manh, k) ==
    [i \in 1..Len(manh) |-> <<<<k * PX(manh[i]), k * PY(manh[i])>>, PL(manh[i])>>]

\* the given routes: the courses the normalizer returns, as they are and
\* five times as large, with the direction they were normalized with
HelperInputs ==
    { [start_dir |-> in.initial_direction,
       manh |-> Scaled(manhattanize_point_list(in.initial_direction, in.initial_point,
                                               in.points), k),
       offset |-> offset] :
        in \in {i \in GridInputs \cup ExampleInputs : PL(i.initial_point) = "M1"},
        k \in {1, 5},
        offset \in ((-MaxOffset)..MaxOffset) \ {0} }

\* the width table of router_temp: every point of manh has a width
WidthsOf(manh) == [p \in {manh[k][1] : k \in 1..Len(manh)} |-> 40]

InitHelper ==
    /\ off \in {[pc |-> "call", in |-> in] : in \in HelperInputs}
    /\ insts = NoInsts
    /\ router = Constructed
    /\ op = NoCall
    /\ nops = 0
    /\ nz = NzIdle
    /\ bfs = BfsIdle

\* self.cardinal_helper(self, manh, start_pt, start_dir, start_layer, offset)
CardinalHelper ==
    /\ off.pc = "call"
    /\ off' = [pc |-> "done", in |-> off.in,
               out |-> cardinal_helper(router, WidthsOf(off.in.manh), off.in.manh,
                                       off.in.manh[1][1], off.in.start_dir,
                                       PL(off.in.manh[1]), off.in.offset, <<>>, <<>>)]
    /\ UNCHANGED <<router, op, nops, nz, bfs, insts>>

NextHelper == CardinalHelper

SpecHelper == InitHelper /\ [][NextHelper]_vars

----------------------------------------------------------------------------
(* bus_router applied to the waypoints of a center route                   *)

\* largest number of routes of a bus
MaxBus == 4

\* the calls of bus_router that are made: the waypoints of the center
\* route are those of the normalizer's inputs, twenty times as large
BusInputs ==
    { [points |-> Scaled(in.points, 20), start_pt |-> <<0, 0>>, start_layer |-> "M1",
       start_dir |-> in.initial_direction, start_width |-> 40,
       parallel_spacing |-> parallel_spacing, bus_size |-> bus_size, prim |-> TRUE] :
        in \in {i \in GridInputs :
                   /\ PL(i.initial_point) = "M1"
                   /\ \A k \in 1..Len(i.points) : PL(i.points[k]) = "M1"},
        parallel_spacing \in {4, 20}, bus_size \in 1..MaxBus }

InitBus ==
    /\ off \in {[pc |-> "bus", in |-> in] : in \in BusInputs}
    /\ insts = NoInsts
    /\ router = Constructed
    /\ op = NoCall
    /\ nops = 0
    /\ nz = NzIdle
    /\ bfs = BfsIdle

\* add_route_points(points, 'M1', width): the waypoints are handed over
BusPoints ==
    /\ off.pc = "bus"
    /\ router.route_points = <<>>
    /\ router' = add_route_points(router,
                                  [k \in 1..Len(off.in.points) |-> off.in.points[k][1]],
                                  "M1", off.in.start_width, TRUE)
    /\ UNCHANGED <<off, op, nops, nz, bfs, insts>>

\* bus_router is called
BusRouter ==
    /\ off.pc = "bus"
    /\ router.route_points # <<>>
    /\ \E b \in {bus_router(router, off.in)} :
          /\ off' = [pc |-> "done", in |-> off.in, routes |-> b.routes, err |-> b.err]
          /\ router' = BusEnd(b)
    /\ UNCHANGED <<op, nops, nz, bfs, insts>>

NextBus == BusPoints \/ BusRouter

SpecBus == InitBus /\ [][NextBus]_vars

----------------------------------------------------------------------------
(* Several routers                                                         *)

\* most routers made
MaxRouters == 2

\* most calls of add_route_points on one router
MaxAdds == 1

\* the config handed to __init__: none, or a width for M1, or for M1 and M2
ConfigOverrides == {<<>>, [l \in {"M1"} |-> 60], [l \in {"M1", "M2"} |-> 80]}

InitInsts ==
    /\ insts = NoInsts
    /\ router = Constructed
    /\ op = NoCall
    /\ nops = 0
    /\ nz = NzIdle
    /\ bfs = BfsIdle
    /\ off = OffIdle

\* EZRouter(gen, config=config)
InstInit ==
    \E config \in ConfigOverrides :
        /\ Len(insts.routers) < MaxRouters
        /\ insts' = EZRouterInit(insts, config)
        /\ UNCHANGED <<router, op, nops, nz, bfs, off>>

\* routers[i].add_route_points(points, layer, width)
InstAddRoutePoints ==
    \E i \in 1..Len(insts.routers), points \in PointLists, layer \in Layers :
        /\ Len(insts.routers[i].state.route_points) < MaxAdds
        /\ insts' = [insts EXCEPT !.routers[i].state =
                        add_route_points(@, points, layer, None, TRUE)]
        /\ UNCHANGED <<router, op, nops, nz, bfs, off>>

\* routers[i].new_route_from_location(start_loc, start_direction, start_layer,
\* width)
InstNewRoute ==
    \E i \in 1..Len(insts.routers), start_direction \in valid_directions :
        /\ Uninitialized(insts.routers[i].state)
        /\ insts' = [insts EXCEPT !.routers[i].state =
                        new_route_from_location(@, <<0, 0>>, start_direction, "M1",
                                                DefaultSize, None)]
        /\ UNCHANGED <<router, op, nops, nz, bfs, off>>

NextInsts == InstInit \/ InstAddRoutePoints \/ InstNewRoute

SpecInsts == InitInsts /\ [][NextInsts]_vars

----------------------------------------------------------------------------
(* Properties of the normalizer (checked under SpecManh)                   *)

NzDone == nz.pc = "done"

DiffersX(a, b) == PX(a) # PX(b)
DiffersY(a, b) == PY(a) # PY(b)

\* b lies on the axis-aligned line through a and c
OnOneLine(a, b, c) ==
    \/ (PX(a) = PX(b) /\ PX(b) = PX(c))
    \/ (PY(a) = PY(b) /\ PY(b) = PY(c))

SameLayer3(a, b, c) == PL(a) = PL(b) /\ PL(b) = PL(c)

\* b lies between a and c (ends included) in both coordinates
Between(a, b, c) ==
    /\ (PX(a) <= PX(b) /\ PX(b) <= PX(c)) \/ (PX(a) >= PX(b) /\ PX(b) >= PX(c))
    /\ (PY(a) <= PY(b) /\ PY(b) <= PY(c)) \/ (PY(a) >= PY(b) /\ PY(b) >= PY(c))

\* C2, as claimed: every consecutive pair of the normalizer's output differs in
\* exactly one axis, never in both x and y and never in neither.
C2_ExactlyOneAxis ==
    NzDone => \A i \in 1..(Len(nz.result) - 1) :
        DiffersX(nz.result[i], nz.result[i + 1]) # DiffersY(nz.result[i], nz.result[i + 1])

\* C2, amended: no consecutive pair of the output differs in both x and y, and
\* a pair that differs in neither axis is a change of layer at one position.
C2_NeverBothAxes ==
    NzDone => \A i \in 1..(Len(nz.result) - 1) :
        LET a == nz.result[i]
            b == nz.result[i + 1]
        IN /\ ~(DiffersX(a, b) /\ DiffersY(a, b))
           /\ (~DiffersX(a, b) /\ ~DiffersY(a, b)) => PL(a) # PL(b)

\* C2 witness: an output in which a diagonal was split and a layer changes in place
C2_Witness ==
    /\ NzDone
    /\ Len(nz.result) >= 4
    /\ nz.last = "diagonal"
    /\ \E i \in 1..(Len(nz.result) - 1) : nz.result[i][1] = nz.result[i + 1][1]

\* C3, as claimed: the output holds no three consecutive waypoints on one
\* horizontal or vertical line with the same layer.
C3_NoThreeOnALine ==
    NzDone => \A i \in 1..(Len(nz.result) - 2) :
        ~(/\ OnOneLine(nz.result[i], nz.result[i + 1], nz.result[i + 2])
          /\ SameLayer3(nz.result[i], nz.result[i + 1], nz.result[i + 2]))

\* C3, amended: the output holds no three consecutive waypoints on one line
\* with the same layer whose middle point lies between the outer two; a
\* middle point at which the route turns back on itself is kept.
C3_NoInteriorCollinear ==
    NzDone => \A i \in 1..(Len(nz.result) - 2) :
        ~(/\ OnOneLine(nz.result[i], nz.result[i + 1], nz.result[i + 2])
          /\ SameLayer3(nz.result[i], nz.result[i + 1], nz.result[i + 2])
          /\ Between(nz.result[i], nz.result[i + 1], nz.result[i + 2]))

\* C3 witness: the sweep removed the last interior point of the list it was given
C3_Witness ==
    /\ NzDone
    /\ nz.pass = 1
    /\ Len(nz.st.manh_point_list) >= 3
    /\ Len(nz.st.manh_point_list) - 1 \in DelIdx(nz.st.manh_point_list)
    /\ Len(nz.result) < Len(nz.st.manh_point_list)

\* C4: normalizing the normalizer's output again, with the same initial
\* direction, returns the identical list; the already axis-aligned example
\* (0,0) -> (3,0) -> (3,4) is returned unchanged.
C4_Idempotent ==
    /\ (NzDone /\ nz.pass = 2) => nz.result = nz.first
    /\ (NzDone /\ nz.pass = 1 /\ nz.initial_direction = "+x"
          /\ nz.initial_point = <<<<0, 0>>, "M1">>
          /\ nz.points = << <<<<3, 0>>, "M1">>, <<<<3, 4>>, "M1">> >>)
       => nz.result = << <<<<0, 0>>, "M1">>, <<<<3, 0>>, "M1">>, <<<<3, 4>>, "M1">> >>

\* C4 witness: a second normalization has ended on a list of a split diagonal
C4_Witness ==
    /\ NzDone
    /\ nz.pass = 2
    /\ Len(nz.first) >= 4
    /\ nz.result = nz.first

\* C5: a target that differs from the current point in both x and y adds
\* exactly two points, the intermediate one reached along the preferred axis
\* (the axis of the initial direction on the first iteration) and the target,
\* and the preferred axis becomes the axis of the second leg; '+x', (0,0),
\* [(3,4)] gives [(0,0),(3,0),(3,4)].
C5_DiagonalSplit ==
    [][ (nz.pc = "loop" /\ nz.i <= Len(nz.points)
           /\ DiffersX(nz.st.current_point, nz.points[nz.i])
           /\ DiffersY(nz.st.current_point, nz.points[nz.i]))
        => LET cur    == nz.st.current_point
               target == nz.points[nz.i]
               axis   == IF nz.i = 1
                         THEN (IF nz.initial_direction \in {"+x", "-x"} THEN "x" ELSE "y")
                         ELSE nz.st.current_dir
               mid    == IF axis = "x" THEN <<PX(target), PY(cur)>>
                                       ELSE <<PX(cur), PY(target)>>
               old    == nz.st.manh_point_list
               new    == nz'.st.manh_point_list
           IN /\ Len(new) = Len(old) + 2
              /\ SubSeq(new, 1, Len(old)) = old
              /\ new[Len(old) + 1][1] = mid
              /\ new[Len(old) + 2] = target
              /\ nz'.st.current_dir = (IF axis = "x" THEN "y" ELSE "x")
              /\ (nz.pass = 1 /\ nz.initial_direction = "+x"
                    /\ nz.initial_point = <<<<0, 0>>, "M1">>
                    /\ nz.points = << <<<<3, 4>>, "M1">> >>)
                 => new = << <<<<0, 0>>, "M1">>, <<<<3, 0>>, "M1">>, <<<<3, 4>>, "M1">> >>
      ]_vars

\* C5 witness: the example has been normalized
C5_Witness ==
    /\ NzDone
    /\ nz.pass = 1
    /\ nz.last = "diagonal"
    /\ nz.points = << <<<<3, 4>>, "M1">> >>
    /\ nz.result = << <<<<0, 0>>, "M1">>, <<<<3, 0>>, "M1">>, <<<<3, 4>>, "M1">> >>

\* the axis of the segment from a to b, "" for a segment of no length
SegAxis(a, b) ==
    IF DiffersX(a, b) THEN "x" ELSE IF DiffersY(a, b) THEN "y" ELSE ""

\* the number of axis changes along list, entered on axis
RECURSIVE AxisChanges(_, _, _)
AxisChanges(list, i, axis) ==
    IF i >= Len(list) THEN 0
    ELSE LET a == SegAxis(list[i], list[i + 1])
         IN IF a = "" THEN AxisChanges(list, i + 1, axis)
            ELSE (IF a = axis THEN 0 ELSE 1) + AxisChanges(list, i + 1, a)

Min2(a, b) == IF a <= b THEN a ELSE b

\* the fewest axis changes of an axis-aligned path from cur, entered on axis,
\* through points[i..] in order with at most one intermediate point per target
RECURSIVE MinAxisChanges(_, _, _, _)
MinAxisChanges(cur, axis, points, i) ==
    IF i > Len(points) THEN 0
    ELSE LET t == points[i]
         IN IF DiffersX(cur, t) /\ DiffersY(cur, t)
            THEN Min2((IF axis = "x" THEN 1 ELSE 2) + MinAxisChanges(t, "y", points, i + 1),
                      (IF axis = "y" THEN 1 ELSE 2) + MinAxisChanges(t, "x", points, i + 1))
            ELSE IF DiffersX(cur, t)
            THEN (IF axis = "x" THEN 0 ELSE 1) + MinAxisChanges(t, "x", points, i + 1)
            ELSE IF DiffersY(cur, t)
            THEN (IF axis = "y" THEN 0 ELSE 1) + MinAxisChanges(t, "y", points, i + 1)
            ELSE MinAxisChanges(t, axis, points, i + 1)

\* C6: the output changes axis no more often (the change from the initial
\* direction's axis to the first segment counted) than any axis-aligned path
\* through the same targets in order with at most one intermediate point each.
C6_MinimalAxisChanges ==
    (NzDone /\ nz.pass = 1) =>
        AxisChanges(nz.result, 1, InitialAxis(nz.initial_direction))
            <= MinAxisChanges(nz.initial_point, InitialAxis(nz.initial_direction), nz.points, 1)

\* the targets that are not coincident with the point before them
RECURSIVE RequiredTargets(_, _, _)
RequiredTargets(prev, points, i) ==
    IF i > Len(points) THEN <<>>
    ELSE (IF points[i] = prev THEN <<>> ELSE <<points[i]>>)
             \o RequiredTargets(points[i], points, i + 1)

\* want[i..] occurs in list[j..] in order
RECURSIVE IsSubsequence(_, _, _, _)
IsSubsequence(want, i, list, j) ==
    IF i > Len(want) THEN TRUE
    ELSE IF j > Len(list) THEN FALSE
    ELSE IF list[j] = want[i] THEN IsSubsequence(want, i + 1, list, j + 1)
    ELSE IsSubsequence(want, i, list, j + 1)

\* C7: every target that is not coincident with the point before it is in
\* the returned list, and the targets are there in their input order.
C7_TargetsKept ==
    (NzDone /\ nz.pass = 1) =>
        IsSubsequence(RequiredTargets(nz.initial_point, nz.points, 1), 1, nz.result, 1)

----------------------------------------------------------------------------
(* Properties of the router (checked under Spec)                           *)

\* the operations that draw
DrawingOps == {"draw_straight_route", "draw_via", "draw_l_route", "cardinal_router"}

\* the positions of the waypoints after the first
TargetPositions(manh) == [k \in 1..(Len(manh) - 1) |-> manh[k + 1][1]]

\* C1: when cardinal_router has completed, the route's position has been at
\* every waypoint of the normalized list, in order, and is at the last one.
C1_ReachesAllWaypoints ==
    (op.name = "cardinal_router" /\ router.err = "none") =>
        /\ IsSubsequence(TargetPositions(op.args.manh), 1, router.trail, 1)
        /\ Position(router) = op.args.manh[Len(op.args.manh)][1]

\* C8: on an initialized route, draw_straight_route to T succeeds, puts the
\* position at T's coordinate along the current direction and leaves its
\* other coordinate, appends one shape, the new current one, to rect_list,
\* and leaves the direction, the handle and the layer as they were.
C8_StraightRouteFrame ==
    [][(op'.name = "draw_straight_route" /\ ~Uninitialized(router)) =>
          /\ router'.err = "none"
          /\ IF IsX(router.current_dir)
             THEN /\ Position(router')[1] = op'.args.loc[1]
                  /\ Position(router')[2] = Position(router)[2]
             ELSE /\ Position(router')[2] = op'.args.loc[2]
                  /\ Position(router')[1] = Position(router)[1]
          /\ router'.loc.rect_list = Append(router.loc.rect_list, router'.current_rect)
          /\ router'.current_rect = Len(router.rects) + 1
          /\ router'.current_dir = router.current_dir
          /\ router'.current_handle = router.current_handle
          /\ router'.layer = router.layer
          /\ Cur(router').layer = Cur(router).layer]_vars

\* a segment was drawn to a target that lies off the route's line: the
\* position is not the target
C8_Witness ==
    /\ op.name = "draw_straight_route"
    /\ router.err = "none"
    /\ Position(router) # op.args.loc
    /\ Len(router.loc.rect_list) >= 2

\* C9: a drawing operation on a router with no route started raises
\* ValueError and changes nothing: not rect_list, not the waypoints added,
\* not the direction, the handle or the current rectangle, and nothing in
\* the database.
C9_UninitializedFails ==
    [][(op'.name \in DrawingOps /\ Uninitialized(router)) =>
          /\ router'.err = "ValueError"
          /\ router'.loc = router.loc
          /\ router'.route_points = router.route_points
          /\ router'.route_point_dict = router.route_point_dict
          /\ router'.current_dir = router.current_dir
          /\ router'.current_handle = router.current_handle
          /\ router'.current_rect = router.current_rect
          /\ router'.layer = router.layer
          /\ router'.rects = router.rects
          /\ router'.prim_via = router.prim_via
          /\ router'.via = router.via]_vars

\* cardinal_router was refused on a router that has waypoints but no route
C9_Witness ==
    /\ op.name = "cardinal_router"
    /\ router.err = "ValueError"
    /\ Uninitialized(router)
    /\ router.route_points # <<>>

\* every draw_via of the call got a via exactly when it changed the layer
TurnsMatchLayers(S) ==
    \A i \in 1..Len(S.turns) :
        S.turns[i].vias = (IF S.turns[i].differ THEN 1 ELSE 0)

\* C10: a draw_via, called directly or by another operation, adds one via
\* when the layer asked for is not the layer of the current rectangle and
\* none when it is, with primitive vias and without; a draw_via to the
\* current layer in a valid direction sets the direction and its handle.
C10_ViaIffLayerChange ==
    [][/\ TurnsMatchLayers(router')
       /\ (/\ op'.name = "draw_via"
           /\ ~Uninitialized(router)
           /\ op'.args.layer = Cur(router).layer
           /\ op'.args.direction \in valid_directions)
          => /\ router'.err = "none"
             /\ NumVias(router') = NumVias(router)
             /\ router'.current_dir = op'.args.direction
             /\ router'.current_handle = HandleFromDir(op'.args.direction)]_vars

\* one call made a turn on its layer and a turn to another layer
C10_Witness ==
    /\ router.err = "none"
    /\ \E i, j \in 1..Len(router.turns) :
          /\ router.turns[i].differ /\ router.turns[i].vias = 1
          /\ ~router.turns[j].differ /\ router.turns[j].vias = 0

\* the lower and the upper of two layers
Lower(a, b) == IF LayerIndex(a) < LayerIndex(b) THEN a ELSE b
Upper(a, b) == IF LayerIndex(a) < LayerIndex(b) THEN b ELSE a

\* layer b is reached from layer a by at most n configured vias, going up
RECURSIVE ChainUp(_, _, _)
ChainUp(a, b, n) ==
    /\ n > 0
    /\ \/ <<a, b>> \in Vias
       \/ \E c \in Metals : <<a, c>> \in Vias /\ ChainUp(c, b, n - 1)

\* a chain of configured vias connects the two layers
ChainExists(a, b) == ChainUp(Lower(a, b), Upper(a, b), Cardinality(Metals))

\* a draw_via to a layer other than the current one, in a valid direction
ViaStep ==
    /\ op'.name = "draw_via"
    /\ ~Uninitialized(router)
    /\ op'.args.layer # Cur(router).layer
    /\ op'.args.direction \in valid_directions

----------------------------------------------------------------------------
(* Claims about the grid search                                            *)

BfsDone == bfs.pc = "done"

\* the neighbours of a square, as a set
NeighborSet(G, c) ==
    {get_neighbors(G, c[3], c[1], c[2])[k] :
        k \in 1..Len(get_neighbors(G, c[3], c[1], c[2]))}

\* the squares one step or none from the squares of from, no step
\* entering an obstructed square
Step(G, from) ==
    from \cup {c \in UNION {NeighborSet(G, p) : p \in from} : G.grids[c] # CellO}

\* the number of steps after which the end square is among the squares
\* reached, from being those reached in n steps; -1 if it never is
RECURSIVE Steps(_, _, _)
Steps(G, from, n) ==
    IF G.end_node \in from THEN n
    ELSE IF Step(G, from) = from THEN -1
    ELSE Steps(G, Step(G, from), n + 1)

\* the least number of steps from the start square to the end square
ShortestLen(G) ==
    IF G.grids[G.start_node] = CellO THEN -1 ELSE Steps(G, {G.start_node}, 0)

\* the end square can be reached from the start square
Reachable(G) == ShortestLen(G) >= 0

\* the squares from the start to the end: the start, then the walk reversed
CellPath(G) ==
    <<G.start_node>> \o [k \in 1..Len(G.path) |-> G.path[Len(G.path) + 1 - k]]

\* each square of a list is a neighbour of the one before it
Connected(G, cells) ==
    \A k \in 1..(Len(cells) - 1) : cells[k + 1] \in NeighborSet(G, cells[k])

\* C12: whenever the end square can be reached from the start square,
\* the start square itself and its neighbours included, the search ends
\* with a path, connected from the start square to the end square, of as
\* many steps as the shortest path has.
C12_ShortestPath ==
    (BfsDone /\ Reachable(bfs)) =>
        /\ bfs.real_path # <<>>
        /\ Connected(bfs, CellPath(bfs))
        /\ Len(CellPath(bfs)) - 1 = ShortestLen(bfs)

\* C13: whenever label_node empties its queue without reaching the end
\* square, the search ends with an error, without a path and without a
\* rectangle or a via drawn.
C13_UnreachableFails ==
    (BfsDone /\ ~bfs.found) =>
        /\ bfs.err # "none"
        /\ bfs.real_path = <<>>
        /\ router.rects = <<>> /\ router.via = <<>> /\ router.prim_via = <<>>

----------------------------------------------------------------------------
(* Claims about the offset routes                                          *)

HelperDone == off.pc = "done"

\* the segment from a to b lies on the line of the segment from p to q
\* moved by d to the side that OffsetSide gives for its direction
Beside(a, b, p, q, d) ==
    IF PY(p) = PY(q)
    THEN PY(a) = PY(b) /\ PY(a) = PY(p) + d * OffsetSide(p[1], q[1])[2]
    ELSE PX(a) = PX(b) /\ PX(a) = PX(p) + d * OffsetSide(p[1], q[1])[1]

\* every segment of the route derived lies beside the segment of the
\* route given that has its index, at distance d
AllBeside(derived, given, d) ==
    /\ Len(derived) = Len(given)
    /\ \A i \in 1..(Len(given) - 1) :
           Beside(derived[i], derived[i + 1], given[i], given[i + 1], d)

\* C14: for every normalized course of two points or more and every
\* offset s, each segment of the course that cardinal_helper returns is
\* parallel to the segment of the given course with the same index, at
\* distance |s| from it, all on one side.
C14_OffsetEverySegment ==
    (HelperDone /\ Len(off.in.manh) >= 2) =>
        /\ off.out.router.err = "none"
        /\ \/ AllBeside(off.out.manh, off.in.manh, Abs(off.in.offset))
           \/ AllBeside(off.out.manh, off.in.manh, -Abs(off.in.offset))

BusDone == off.pc = "done" /\ "bus_size" \in DOMAIN off.in

\* the course of the center of the bus
BusCenter ==
    manhattanize_point_list(off.in.start_dir, <<off.in.start_pt, off.in.start_layer>>,
                            off.in.points)

\* C15: a bus of N routes with spacing s has exactly N routes, and for
\* each k in 0..N-1 one of them lies, on every segment, at the offset
\* (k - (N-1)/2) * s from the course of the center.
C15_BusOffsets ==
    (BusDone /\ Len(BusCenter) >= 2) =>
        /\ off.err = "none"
        /\ Len(off.routes) = off.in.bus_size
        /\ \A k \in 0..(off.in.bus_size - 1) :
               \E m \in 1..Len(off.routes) :
                   AllBeside(off.routes[m], BusCenter,
                             (2 * k - (off.in.bus_size - 1)) * (off.in.parallel_spacing \div 2))

----------------------------------------------------------------------------
(* Claims about the state of the router                                    *)

\* C16: after a start, and after a straight segment or a turn that
\* follows it, the layer the router records is the layer of the shape it
\* made last.
C16_LayerTracksRoute ==
    (/\ nops <= 1
     /\ op.name \in {"__init__", "new_route", "new_route_from_location",
                     "draw_straight_route", "draw_via"}
     /\ router.err = "none"
     /\ ~Uninitialized(router))
        => router.layer = Cur(router).layer

\* what router i observes: its configuration and its own state
InstView(I, i) == [config |-> I.heap[I.routers[i].config], state |-> I.routers[i].state]

\* C17: making a router changes nothing that a router made before
\* observes, and an operation on a router changes nothing that another
\* router observes.
C17_NoSharedState ==
    [][Cardinality({i \in 1..Len(insts.routers) : InstView(insts', i) # InstView(insts, i)})
          <= (IF Len(insts'.routers) > Len(insts.routers) THEN 0 ELSE 1)]_vars

\* the one axis in which q differs from p, or "none"
MovedAxis(p, q) ==
    IF PX(q) # PX(p) /\ PY(q) = PY(p) THEN "x"
    ELSE IF PX(q) = PX(p) /\ PY(q) # PY(p) THEN "y"
    ELSE "none"

OtherAxis(a) == IF a = "x" THEN "y" ELSE "x"

\* the corner between p and q when the move along axis a is made first
CornerFirst(a, p, q) ==
    IF a = "x" THEN <<<<PX(q), PY(p)>>, PL(p)>> ELSE <<<<PX(p), PY(q)>>, PL(p)>>

\* the loop is at a point that differs from the current point in one axis
AtSingleAxis ==
    /\ nz.pc = "loop"
    /\ nz.i <= Len(nz.points)
    /\ MovedAxis(nz.st.current_point, nz.points[nz.i]) # "none"

\* the loop is at a point that differs in both axes, right after a point
\* that differed from its current point in one axis
AtDiagonalAfterSingle ==
    /\ nz.pc = "loop"
    /\ nz.i <= Len(nz.points)
    /\ nz.last = "single"
    /\ MovedAxis(nz.st.manh_point_list[Len(nz.st.manh_point_list) - 1],
                 nz.st.current_point) # "none"
    /\ ManhBranch(nz.st, nz.points[nz.i]) = "diagonal"

\* the iteration at a one-axis point appends it unchanged and leaves the
\* preferred axis Pref(axis that moved)
SingleStep(Pref(_)) ==
    AtSingleAxis =>
        /\ nz'.st.manh_point_list = Append(nz.st.manh_point_list, nz.points[nz.i])
        /\ nz'.st.current_point = nz.points[nz.i]
        /\ nz'.st.current_dir = Pref(MovedAxis(nz.st.current_point, nz.points[nz.i]))

\* the iteration at a diagonal point after a one-axis point splits it by
\* moving first along Pref(axis that moved last)
SplitStep(Pref(_)) ==
    AtDiagonalAfterSingle =>
        LET n == Len(nz.st.manh_point_list)
            a == Pref(MovedAxis(nz.st.manh_point_list[n - 1], nz.st.current_point))
        IN nz'.st.manh_point_list =
               nz.st.manh_point_list
                   \o <<CornerFirst(a, nz.st.current_point, nz.points[nz.i]), nz.points[nz.i]>>

SameAxis(a) == a

\* C19 as stated: a waypoint that differs from the current point in one
\* axis is appended unchanged and the preferred axis becomes the axis that
\* did not move, so a following waypoint that differs in both axes is split
\* by moving first along the axis that did not move.
C19_PreferredAxisStill ==
    [][(nz'.pc = "loop" /\ nz.pc = "loop") => (SingleStep(OtherAxis) /\ SplitStep(OtherAxis))]_vars

\* C19 amended: a waypoint that differs from the current point in one axis
\* is appended unchanged and the preferred axis becomes the axis that
\* moved, so a following waypoint that differs in both axes is split by
\* moving first along the axis that moved.
C19_PreferredAxisMoved ==
    [][(nz'.pc = "loop" /\ nz.pc = "loop") => (SingleStep(SameAxis) /\ SplitStep(SameAxis))]_vars

\* a one-axis point in x has been appended and the diagonal point after it
\* has been split with the move along x first
C19_Witness ==
    /\ nz.pc = "loop"
    /\ nz.pass = 1
    /\ Len(nz.points) = 2
    /\ nz.i = 3
    /\ nz.last = "diagonal"
    /\ MovedAxis(nz.initial_point, nz.points[1]) = "x"
    /\ nz.st.manh_point_list =
           <<nz.initial_point, nz.points[1],
             CornerFirst("x", nz.points[1], nz.points[2]), nz.points[2]>>
    /\ nz.st.current_dir = "y"

\* the straight segments of the operation in progress: the moves of the
\* route that are not turns
NumSegments(S) == Len(S.trail) - Len(S.turns)

\* C20: when cardinal_router has completed a route over k normalized
\* waypoints it has emitted k straight segments and k-1 turn/via steps:
\* nothing, turn shape or via, comes after the terminal straight segment.
C20_TerminalSegmentOnly ==
    (op.name = "cardinal_router" /\ router.err = "none") =>
        /\ NumSegments(router) = Len(op.args.manh) - 1
        /\ Len(router.turns) = Len(op.args.manh) - 2

\* the walk back begins: label_node has returned
BackBegins == bfs.pc = "label" /\ bfs'.pc = "back"

\* the walk back takes a step and goes on
BackMoves == bfs.pc = "back" /\ bfs'.pc = "back"

\* the walk back ends, with a path or with an exception
BackStops == bfs.pc = "back" /\ bfs'.pc = "done"

\* C21: the walk back starts at the end square, moves at every step to an
\* unvisited neighbour whose label is strictly smaller than the label of the
\* square it leaves, and stops exactly when it is at the start square, which
\* carries label 0.
C21_Backtrack ==
    [][/\ BackBegins => bfs'.curr_node = bfs'.end_node
       /\ BackMoves =>
              /\ bfs'.curr_node \in NeighborSet(bfs, bfs.curr_node)
              /\ bfs'.curr_node \notin bfs.visited
              /\ bfs.grids[bfs'.curr_node] >= 0
              /\ bfs.grids[bfs.curr_node] >= 0 =>
                     bfs.grids[bfs'.curr_node] < bfs.grids[bfs.curr_node]
       /\ BackMoves => bfs.curr_node # bfs.start_node
       /\ BackStops => (bfs.curr_node = bfs.start_node /\ bfs.grids[bfs.start_node] = 0)]_vars

\* where the square c is in the layout
CellPos(G, c) ==
    <<Round(G.ll_pos[1], G.a.config[c[3]].spacing) * G.a.config[c[3]].spacing
          + G.a.config[c[3]].spacing * c[1],
      Round(G.ll_pos[2], G.a.config[c[3]].spacing) * G.a.config[c[3]].spacing
          + G.a.config[c[3]].spacing * c[2]>>

\* the square c lies inside an obstruction of its layer
Covered(G, c) ==
    \E k \in 1..Len(G.a.obstructions) :
        /\ G.a.obstructions[k].layer = c[3]
        /\ G.a.obstructions[k].llx < CellPos(G, c)[1]
        /\ CellPos(G, c)[1] < G.a.obstructions[k].urx
        /\ G.a.obstructions[k].lly < CellPos(G, c)[2]
        /\ CellPos(G, c)[2] < G.a.obstructions[k].ury

\* C22: whatever the obstructions and the routing area, no square of a path
\* that bfs_router returns, the start and end squares included, lies inside
\* an obstruction of the square's layer.
C22_PathAvoidsObstructions ==
    (BfsDone /\ bfs.err = "none") =>
        \A k \in 1..Len(CellPath(bfs)) : ~Covered(bfs, CellPath(bfs)[k])

\* C23: for every normalized course and every spacing, the course that
\* cardinal_helper derives has as many segments as the given course and
\* the same travel directions in the same order, also where a segment of
\* the given course is shorter than twice the spacing.
C23_SameTurnSequence ==
    (HelperDone /\ Len(off.in.manh) >= 2) =>
        /\ off.out.router.err = "none"
        /\ Len(off.out.manh) = Len(off.in.manh)
        /\ RouteDirs(off.out.manh) = RouteDirs(off.in.manh)

UnitVectors == {<<1, 0>>, <<-1, 0>>, <<0, 1>>, <<0, -1>>}

DiagonalVectors == {<<1, 1>>, <<1, -1>>, <<-1, 1>>, <<-1, -1>>}

\* the table has an entry for each of the 16 pairs of directions
TableTotal ==
    /\ DOMAIN shield_dict = valid_directions
    /\ \A d0 \in valid_directions : DOMAIN shield_dict[d0] = valid_directions

\* the entries that cardinal_helper looks up for the course it is given,
\* one for each pair of consecutive segments
LookedUp ==
    {shield_dict[RouteDirs(off.in.manh)[i]][RouteDirs(off.in.manh)[i + 1]] :
        i \in 1..(Len(off.in.manh) - 2)}

\* C24 as stated: shield_dict has an entry for each of the 16 pairs of
\* directions, and every entry, so every entry looked up for a course, is
\* a unit vector.
C24_UnitEntries ==
    /\ TableTotal
    /\ \A d0, d1 \in valid_directions : shield_dict[d0][d1] \in UnitVectors
    /\ LookedUp \subseteq UnitVectors

\* C24 amended: shield_dict has an entry for each of the 16 pairs of
\* directions; the entry of two directions of the same axis is a unit
\* vector across that axis, and the entry of a turn is a diagonal vector,
\* both components 1 or -1; every entry looked up for a course is one of
\* these.
C24_UnitOrDiagonalEntries ==
    /\ TableTotal
    /\ \A d0, d1 \in valid_directions :
           IF AxisChar(d0) = AxisChar(d1)
           THEN /\ shield_dict[d0][d1] \in UnitVectors
                /\ shield_dict[d0][d1][IF AxisChar(d0) = "x" THEN 1 ELSE 2] = 0
           ELSE shield_dict[d0][d1] \in DiagonalVectors
    /\ LookedUp \subseteq UnitVectors \cup DiagonalVectors

\* a course with a turn has been given and the turn of the course derived
\* is the given turn moved by the offset along the diagonal entry
C24_Witness ==
    /\ HelperDone
    /\ Len(off.in.manh) = 3
    /\ AxisChar(RouteDirs(off.in.manh)[1]) # AxisChar(RouteDirs(off.in.manh)[2])
    /\ off.out.router.err = "none"
    /\ Len(off.out.manh) = 3
    /\ off.out.manh[2][1] =
           Shifted(off.in.manh[2][1], off.in.offset,
                   shield_dict[RouteDirs(off.in.manh)[1]][RouteDirs(off.in.manh)[2]])
    /\ shield_dict[RouteDirs(off.in.manh)[1]][RouteDirs(off.in.manh)[2]] \in DiagonalVectors

\* the rectangles of the database, two by two, on different layers
RectPairs ==
    {p \in (1..Len(router.rects)) \X (1..Len(router.rects)) :
        router.rects[p[1]].layer # router.rects[p[2]].layer}

StartOrTurnOps == {"new_route", "new_route_from_location", "draw_via"}

\* C26: a start or a turn that fails has had no effect: no shape and no
\* via has been added to the route's lists or to the generator's database,
\* and the current shape, direction and handle are those of before the call.
C26_FailureHasNoEffect ==
    [][(op'.name \in StartOrTurnOps /\ router'.err # "none") =>
          /\ router'.rects = router.rects
          /\ router'.prim_via = router.prim_via
          /\ router'.via = router.via
          /\ router'.loc = router.loc
          /\ router'.current_rect = router.current_rect
          /\ router'.current_dir = router.current_dir
          /\ router'.current_handle = router.current_handle]_vars

\* C27: after any sequence of calls, those that fail included, the handle
\* is the one of the direction: 'cr' for +x, 'cl' for -x, 'ct' for +y, 'cb'
\* for -y; a router that has no direction yet has no handle.
C27_HandleMatchesDirection ==
    IF router.current_dir \in valid_directions
    THEN router.current_handle = HandleFromDir(router.current_dir)
    ELSE router.current_dir = "None" /\ router.current_handle = "None"

\* a route that was turned to +y has then refused a turn: it still goes +y
\* with the handle 'ct'
C27_Witness ==
    /\ nops = 2
    /\ op.name = "draw_via"
    /\ router.err # "none"
    /\ Len(router.loc.rect_list) >= 2
    /\ router.current_dir = "+y"
    /\ router.current_handle = "ct"

\* the calls that start a route
StartOps == {"new_route", "new_route_from_location"}

\* C28: a start leaves in the route's list of shapes nothing of a route
\* made before, only the shape it starts with; and after every start,
\* straight segment or turn the last shape of the list is the current one.
C28_OutputListTracksRoute ==
    [][/\ (op'.name \in StartOps /\ router'.err = "none") =>
              router'.loc.rect_list = <<router'.current_rect>>
       /\ (op'.name \in StartOps \cup {"draw_straight_route", "draw_via"}
              /\ router'.err = "none") =>
              router'.loc.rect_list[Len(router'.loc.rect_list)] = router'.current_rect]_vars

\* label_node has been called: the grids are there
GridsMade == bfs.pc \in {"label", "back", "done"}

\* C29: for every pair of layers and spacings, a square that get_neighbors
\* returns for another has that other square among its own neighbours.
C29_NeighborsSymmetric ==
    GridsMade =>
        \A c \in DOMAIN bfs.grids :
            \A d \in NeighborSet(bfs, c) : c \in NeighborSet(bfs, d)

\* label_node writes a square only if it has no label, and writes a label
LabelsOnce ==
    (bfs.pc = "label" /\ bfs'.pc \in {"label", "back"}) =>
        \A c \in DOMAIN bfs.grids :
            bfs'.grids[c] # bfs.grids[c] => (bfs.grids[c] = CellNone /\ bfs'.grids[c] >= 1)

\* label_node takes one entry from its queue and adds at most one for each
\* neighbour of the square, all without a label or the end
DequeuesOne ==
    (bfs.pc = "label" /\ bfs'.pc = "label" /\ bfs.h # <<>>) =>
        /\ Len(bfs'.h) >= Len(bfs.h) - 1
        /\ SubSeq(bfs'.h, 1, Len(bfs.h) - 1) = Tail(bfs.h)
        /\ Len(bfs'.h) - (Len(bfs.h) - 1)
               <= Cardinality(NeighborSet(bfs, Head(bfs.h)[1]))
        /\ \A k \in Len(bfs.h)..Len(bfs'.h) :
               bfs'.grids[bfs'.h[k][1]] \in {CellNone, CellE}

\* the walk back enters no square twice
VisitsOnce ==
    BackMoves => \A k \in 1..Len(bfs.path) : bfs.path[k] # bfs'.curr_node

\* C30: label_node labels each square at most once and takes one entry
\* from its queue at each turn; the walk back enters each square at most
\* once; the loop of label_node ends, and the walk back ends with the path
\* recovered or with an error.
\* the walk back is at a square of label 1: the path is recovered, and
\* what is left is its conversion and the drawing of the route
AtLabelOne == bfs.pc = "back" /\ bfs.grids[bfs.curr_node] = 1

C30_Terminates ==
    /\ [][LabelsOnce /\ DequeuesOne /\ VisitsOnce]_vars
    /\ (bfs.pc = "label") ~> (bfs.pc = "back")
    /\ (bfs.pc = "back") ~> (BfsDone \/ AtLabelOne)

\* a search has ended after a walk back of two steps or more over squares
\* that label_node labelled
C30_Witness ==
    /\ BfsDone
    /\ Len(bfs.path) >= 3
    /\ \A k \in 2..Len(bfs.path) : bfs.grids[bfs.path[k]] >= 1
    /\ bfs.path[Len(bfs.path)] \in bfs.visited

====
